---- MODULE Spec2Model ----
(***************************************************************************)
(* Model of the non-blocking MH-Z19C driver: the command codec and frame   *)
(* (command.rs, frame.rs), the primitive and composite futures             *)
(* (nb_comm.rs) and the sensor driver state machine (lib.rs).              *)
(*                                                                         *)
(* One action of the driver specification is either the entry of a public  *)
(* call (up to its first transport invocation) or one transport invocation *)
(* of the call in progress together with everything the call does up to    *)
(* its next transport invocation or its return.  `call.active` is the      *)
(* position of the caller: FALSE between public calls.                     *)
(***************************************************************************)
EXTENDS Integers, Sequences, FiniteSets, TLC

(* ------------------------------ bounds --------------------------------- *)
\* number of operations (futures) the driver starts in one behaviour
MaxOps == 3
\* longest buffer of a stand-alone primitive future
MaxLen == 3
\* number of operations a host that retries until completion carries out
MaxLiveOps == 2

(* ------------------------- program constants --------------------------- *)
START_BYTE == 255
COMMAND_MAGIC_BYTE == 1
OP_READ_CO2_AND_TEMPERATURE == 133
OP_READ_CO2 == 134
OP_GET_FIRMWARE_VERSION == 160
OP_SET_SELF_CALIBRATE == 121
ARG_CALIBRATE_ON == 160
RESPONSE_LEN == 9
ASCII_5 == 53

(* ------------------------------ command.rs ----------------------------- *)
Cmd(tag, enabled) == [tag |-> tag, enabled |-> enabled]

Commands ==
    { Cmd("ReadCo2AndTemperature", FALSE), Cmd("ReadCo2", FALSE),
      Cmd("GetFirmwareVersion", FALSE),
      Cmd("SetSelfCalibrate", TRUE), Cmd("SetSelfCalibrate", FALSE) }

op_code(command) ==
    CASE command.tag = "ReadCo2AndTemperature" -> OP_READ_CO2_AND_TEMPERATURE
      [] command.tag = "ReadCo2"               -> OP_READ_CO2
      [] command.tag = "GetFirmwareVersion"    -> OP_GET_FIRMWARE_VERSION
      [] command.tag = "SetSelfCalibrate"      -> OP_SET_SELF_CALIBRATE

\* serialize putting the enable marker into the request that disables
serialize_inverted(command) ==
    IF command.tag = "SetSelfCalibrate" /\ ~command.enabled
    THEN <<op_code(command), ARG_CALIBRATE_ON, 0, 0, 0, 0>>
    ELSE <<op_code(command), 0, 0, 0, 0, 0>>

serialize(command) ==
    IF command.tag = "SetSelfCalibrate" /\ command.enabled
    THEN <<op_code(command), ARG_CALIBRATE_ON, 0, 0, 0, 0>>
    ELSE <<op_code(command), 0, 0, 0, 0, 0>>

(* ------------------------------- frame.rs ------------------------------ *)
RECURSIVE checksum_fold(_, _)
checksum_fold(buf, acc) ==
    IF buf = <<>> THEN acc
    ELSE checksum_fold(Tail(buf), (acc - Head(buf)) % 256)

\* checksum returning the sum instead of its negation
checksum_sum(buf) == (256 - checksum_fold(buf, 0)) % 256

checksum(buf) == checksum_fold(buf, 0)

\* Rust's buf[a..b] (0-based, b exclusive) on a 1-based sequence
Slice(buf, a, b) == SubSeq(buf, a + 1, b)

\* Frame::from taking the checksum over the start byte as well
Frame_from_all(command) ==
    LET buf == <<START_BYTE, COMMAND_MAGIC_BYTE>> \o serialize(command)
    IN  buf \o <<checksum(Slice(buf, 0, 8))>>

Frame_from(command) ==
    LET buf == <<START_BYTE, COMMAND_MAGIC_BYTE>> \o serialize(command)
    IN  buf \o <<checksum(Slice(buf, 1, 8))>>

start_byte(frame) == frame[1]
has_valid_start_byte(frame) == start_byte(frame) = START_BYTE
is_response(frame) == frame[2] # COMMAND_MAGIC_BYTE
\* Frame::op_code reading byte 1 of requests as well
frame_op_code_fixed(frame) == frame[2]

frame_op_code(frame) == IF is_response(frame) THEN frame[2] ELSE frame[3]
frame_checksum(frame) == frame[9]
\* Frame::data leaving out the last three data bytes of a response
data_short(frame) ==
    IF is_response(frame) THEN Slice(frame, 2, 5) ELSE Slice(frame, 3, 8)

data(frame) == IF is_response(frame) THEN Slice(frame, 2, 8) ELSE Slice(frame, 3, 8)
has_valid_checksum(frame) == checksum(Slice(frame, 1, 8)) = frame_checksum(frame)

NoVal == <<>>
Res(tag, val) == [tag |-> tag, val |-> val]

\* Frame::validate checking the checksum before the start byte
validate_checksum_first(frame) ==
    IF ~has_valid_checksum(frame)
    THEN Res("InvalidChecksum", <<checksum(Slice(frame, 1, 8)), frame_checksum(frame)>>)
    ELSE IF ~has_valid_start_byte(frame)
    THEN Res("InvalidStartByte", <<start_byte(frame)>>)
    ELSE Res("Ok", NoVal)

validate(frame) ==
    IF ~has_valid_start_byte(frame)
    THEN Res("InvalidStartByte", <<start_byte(frame)>>)
    ELSE IF ~has_valid_checksum(frame)
    THEN Res("InvalidChecksum", <<checksum(Slice(frame, 1, 8)), frame_checksum(frame)>>)
    ELSE Res("Ok", NoVal)

(* ------------------------- lib.rs: decoding ---------------------------- *)
\* unpack_return_frame comparing the opcode before it looks at the marker
unpack_return_frame_opcode_first(command, frame) ==
    LET v == validate(frame) IN
    IF v.tag # "Ok" THEN v
    ELSE IF frame_op_code(frame) # op_code(command)
    THEN Res("OpCodeMismatch", <<op_code(command), frame_op_code(frame)>>)
    ELSE IF ~is_response(frame) THEN Res("NotAResponse", NoVal)
    ELSE Res("Ok", data(frame))

unpack_return_frame(command, frame) ==
    LET v == validate(frame) IN
    IF v.tag # "Ok" THEN v
    ELSE IF ~is_response(frame) THEN Res("NotAResponse", NoVal)
    ELSE IF frame_op_code(frame) # op_code(command)
    THEN Res("OpCodeMismatch", <<op_code(command), frame_op_code(frame)>>)
    ELSE Res("Ok", data(frame))

\* the two bytes taken low byte first
u16_from_le_bytes(b) == b[2] * 256 + b[1]

u16_from_be_bytes(b) == b[1] * 256 + b[2]

READ_CO2_AND_TEMPERATURE == Frame_from(Cmd("ReadCo2AndTemperature", FALSE))
READ_CO2 == Frame_from(Cmd("ReadCo2", FALSE))
GET_FIRMWARE_VERSION == Frame_from(Cmd("GetFirmwareVersion", FALSE))

(* ------------------- transport (embedded-hal serial) ------------------- *)
\* error values the transport may raise
Errs == {"e1", "e2"}

Ok == Res("Ok", NoVal)
WouldBlock == Res("WouldBlock", NoVal)
Other(e) == Res("Other", <<e>>)
\* the primitive's loop goes on to its next transport invocation
Continue == Res("Continue", NoVal)

\* nb::Result<(), E> of write and flush
UnitOutcomes == {Ok, WouldBlock} \cup {Other(e) : e \in Errs}

IsOk(res) == res.tag = "Ok"

\* the transport value owned by the driver or by a future
U == "uart"
None == <<>>
Some(x) == <<x>>

(* ------------------------ nb_comm.rs: WriteAll ------------------------- *)
WriteAll_new(u, buf) == [uart |-> u, buf |-> buf, bytes_written |-> 0]

\* self.buf.as_ref()[self.bytes_written] is in range
WriteAll_index_ok(f) == f.bytes_written < Len(f.buf)

\* the byte c handed to uart.write(c)
WriteAll_byte(f) == f.buf[f.bytes_written + 1]

\* WriteAll::poll moving its cursor whatever uart.write(c) returned
WriteAll_poll_skip(f, res) ==
    LET g == [f EXCEPT !.bytes_written = @ + 1] IN
    IF IsOk(res)
    THEN [future |-> g,
          ret |-> IF g.bytes_written >= Len(g.buf) THEN Ok ELSE Continue]
    ELSE [future |-> IF g.bytes_written < Len(g.buf) THEN g ELSE f, ret |-> res]

\* WriteAll::poll starting over from byte 0 after a suspension
WriteAll_poll_restart(f, res) ==
    IF IsOk(res)
    THEN LET g == [f EXCEPT !.bytes_written = @ + 1]
         IN  [future |-> g,
              ret |-> IF g.bytes_written >= Len(g.buf) THEN Ok ELSE Continue]
    ELSE [future |-> [f EXCEPT !.bytes_written = 0], ret |-> res]

\* one iteration of the loop of WriteAll::poll, res being what uart.write(c) returned
WriteAll_poll(f, res) ==
    IF IsOk(res)
    THEN LET g == [f EXCEPT !.bytes_written = @ + 1]
         IN  [future |-> g,
              ret |-> IF g.bytes_written >= Len(g.buf) THEN Ok ELSE Continue]
    ELSE [future |-> f, ret |-> res]

WriteAll_into_return_value(f) == f.uart

(* ---------------------- nb_comm.rs: ReadMultiple ----------------------- *)
ReadMultiple_new(u, buf, read_len) ==
    [uart |-> u, buf |-> buf, bytes_read |-> 0, read_len |-> read_len]

\* self.buf.as_mut()[self.bytes_read] is in range
ReadMultiple_index_ok(f) == f.bytes_read < Len(f.buf)

\* ReadMultiple::poll forgetting what it has read when it is suspended
ReadMultiple_poll_reset(f, res) ==
    IF IsOk(res)
    THEN LET g == [f EXCEPT !.buf[f.bytes_read + 1] = res.val[1],
                            !.bytes_read = @ + 1]
         IN  [future |-> g,
              ret |-> IF g.bytes_read >= g.read_len THEN Ok ELSE Continue]
    ELSE [future |-> [f EXCEPT !.bytes_read = 0], ret |-> res]

\* ReadMultiple::poll storing every byte at the start of the buffer
ReadMultiple_poll_first(f, res) ==
    IF IsOk(res)
    THEN LET g == [f EXCEPT !.buf[1] = res.val[1], !.bytes_read = @ + 1]
         IN  [future |-> g,
              ret |-> IF g.bytes_read >= g.read_len THEN Ok ELSE Continue]
    ELSE [future |-> f, ret |-> res]

\* one iteration of the loop of ReadMultiple::poll, res being what uart.read()
\* returned (Ok carries the byte read)
ReadMultiple_poll(f, res) ==
    IF IsOk(res)
    THEN LET g == [f EXCEPT !.buf[f.bytes_read + 1] = res.val[1],
                            !.bytes_read = @ + 1]
         IN  [future |-> g,
              ret |-> IF g.bytes_read >= g.read_len THEN Ok ELSE Continue]
    ELSE [future |-> f, ret |-> res]

ReadMultiple_into_return_value(f) == [uart |-> f.uart, buf |-> f.buf]

(* ------------------ nb_comm.rs: WriteAndReadResponse ------------------- *)
WriteAndReadResponse_new(u, write_buf_, read_buf, response_len) ==
    [state |-> [tag |-> "Write", future |-> WriteAll_new(u, write_buf_),
                read_buf |-> read_buf, response_len |-> response_len]]

\* advance going from the completed write straight to the read, without a flush
advance_noflush(st, res) ==
    CASE st.tag = "Write" ->
           LET r == WriteAll_poll(st.future, res) IN
           IF IsOk(r.ret)
           THEN [state |-> [tag |-> "Read",
                            future |-> ReadMultiple_new(
                                           WriteAll_into_return_value(r.future),
                                           st.read_buf, st.response_len)],
                 ret |-> Ok]
           ELSE [state |-> [st EXCEPT !.future = r.future], ret |-> r.ret]
      [] st.tag = "Read" ->
           LET r == ReadMultiple_poll(st.future, res) IN
           IF IsOk(r.ret)
           THEN LET v == ReadMultiple_into_return_value(r.future)
                IN  [state |-> [tag |-> "Completed", uart |-> v.uart,
                                read_buf |-> v.buf],
                     ret |-> Ok]
           ELSE [state |-> [st EXCEPT !.future = r.future], ret |-> r.ret]
      [] OTHER -> [state |-> st, ret |-> Ok]

\* advance going on to the read although the flush was not ready
advance_eager(st, res) ==
    CASE st.tag = "Write" ->
           LET r == WriteAll_poll(st.future, res) IN
           IF IsOk(r.ret)
           THEN [state |-> [tag |-> "Flush",
                            uart |-> WriteAll_into_return_value(r.future),
                            read_buf |-> st.read_buf,
                            response_len |-> st.response_len],
                 ret |-> Ok]
           ELSE [state |-> [st EXCEPT !.future = r.future], ret |-> r.ret]
      [] st.tag = "Flush" ->
           IF IsOk(res) \/ res = WouldBlock
           THEN [state |-> [tag |-> "Read",
                            future |-> ReadMultiple_new(st.uart, st.read_buf,
                                                        st.response_len)],
                 ret |-> res]
           ELSE [state |-> st, ret |-> res]
      [] st.tag = "Read" ->
           LET r == ReadMultiple_poll(st.future, res) IN
           IF IsOk(r.ret)
           THEN LET v == ReadMultiple_into_return_value(r.future)
                IN  [state |-> [tag |-> "Completed", uart |-> v.uart,
                                read_buf |-> v.buf],
                     ret |-> Ok]
           ELSE [state |-> [st EXCEPT !.future = r.future], ret |-> r.ret]
      [] OTHER -> [state |-> st, ret |-> Ok]

\* WriteAndReadResponseState::advance, res being the result of the one
\* transport invocation it makes; ret = Continue while the primitive polled by
\* advance has not returned yet
advance(st, res) ==
    CASE st.tag = "Write" ->
           LET r == WriteAll_poll(st.future, res) IN
           IF IsOk(r.ret)
           THEN [state |-> [tag |-> "Flush",
                            uart |-> WriteAll_into_return_value(r.future),
                            read_buf |-> st.read_buf,
                            response_len |-> st.response_len],
                 ret |-> Ok]
           ELSE [state |-> [st EXCEPT !.future = r.future], ret |-> r.ret]
      [] st.tag = "Flush" ->
           IF IsOk(res)
           THEN [state |-> [tag |-> "Read",
                            future |-> ReadMultiple_new(st.uart, st.read_buf,
                                                        st.response_len)],
                 ret |-> Ok]
           ELSE [state |-> st, ret |-> res]
      [] st.tag = "Read" ->
           LET r == ReadMultiple_poll(st.future, res) IN
           IF IsOk(r.ret)
           THEN LET v == ReadMultiple_into_return_value(r.future)
                IN  [state |-> [tag |-> "Completed", uart |-> v.uart,
                                read_buf |-> v.buf],
                     ret |-> Ok]
           ELSE [state |-> [st EXCEPT !.future = r.future], ret |-> r.ret]
      [] OTHER -> [state |-> st, ret |-> Ok]

\* cancel handing back a cleared read buffer when the read is under way
cancel_fresh(st) ==
    CASE st.tag = "Write" ->
           [uart |-> WriteAll_into_return_value(st.future), buf |-> st.read_buf]
      [] st.tag = "Flush" -> [uart |-> st.uart, buf |-> st.read_buf]
      [] st.tag = "Read" ->
           [uart |-> st.future.uart, buf |-> [i \in 1..Len(st.future.buf) |-> 0]]
      [] st.tag = "Completed" -> [uart |-> st.uart, buf |-> st.read_buf]

cancel(st) ==
    CASE st.tag = "Write" ->
           [uart |-> WriteAll_into_return_value(st.future), buf |-> st.read_buf]
      [] st.tag = "Flush" -> [uart |-> st.uart, buf |-> st.read_buf]
      [] st.tag = "Read" -> ReadMultiple_into_return_value(st.future)
      [] st.tag = "Completed" -> [uart |-> st.uart, buf |-> st.read_buf]

\* WriteAndReadResponse::poll trying again after a fatal error of the transport
WriteAndReadResponse_poll_retry(f, res) ==
    LET a == advance(f.state, res) IN
    IF a.ret.tag \in {"Continue", "Other"}
    THEN [future |-> [state |-> a.state], ret |-> Continue]
    ELSE IF a.state.tag = "Completed" THEN [future |-> [state |-> a.state], ret |-> Ok]
    ELSE IF ~IsOk(a.ret) THEN [future |-> [state |-> a.state], ret |-> a.ret]
    ELSE [future |-> [state |-> a.state], ret |-> Continue]

\* one iteration of the loop of WriteAndReadResponse::poll
WriteAndReadResponse_poll(f, res) ==
    LET a == advance(f.state, res) IN
    IF a.ret.tag = "Continue" THEN [future |-> [state |-> a.state], ret |-> Continue]
    ELSE IF a.state.tag = "Completed" THEN [future |-> [state |-> a.state], ret |-> Ok]
    ELSE IF ~IsOk(a.ret) THEN [future |-> [state |-> a.state], ret |-> a.ret]
    ELSE [future |-> [state |-> a.state], ret |-> Continue]

WriteAndReadResponse_into_return_value(f) == cancel(f.state)

(* --------------------------- lib.rs: driver ---------------------------- *)
VARIABLES
    state,          \* MhZ19C.state : MhZ19CState
    uart,           \* MhZ19C.uart : Option<U>
    fw5,            \* an MhZ19CFw5 handle has been handed out
    panicked,       \* an unwrap() or an index has panicked
    call,           \* the public call in progress and what it has done so far
    ret,            \* what the last public call returned
    started,        \* number of futures created so far
    opBase,         \* transport counters when the in-flight future was created
    write_buf,      \* bytes the transport has accepted (SerialMock.write_buf)
    flushed_up_to,  \* SerialMock.flushed_up_to
    rx_line,        \* the bytes of the sensor's current frame not yet delivered
    rx_count,       \* bytes the transport has delivered in total
    received,       \* the bytes delivered to the in-flight future, in order
    nb              \* a primitive future polled on its own

driverVars == <<state, uart, fw5, panicked, call, ret, started, opBase>>
uartVars == <<write_buf, flushed_up_to, rx_line, rx_count>>
vars == <<state, uart, fw5, panicked, call, ret, started, opBase,
          write_buf, flushed_up_to, rx_line, rx_count, received, nb>>

Idle == [kind |-> "Idle"]

Op(name, enabled) == [name |-> name, enabled |-> enabled]

\* the MhZ19CState variant a public operation starts and waits for
OpKind(op) ==
    CASE op.name = "read_co2_ppm"         -> "ReadCo2"
      [] op.name = "get_firmware_version" -> "GetFirmwareVersion"
      [] op.name = "upgrade_to_v5"        -> "GetFirmwareVersion"
      [] op.name = "set_self_calibrate"   -> "SetSelfCalibrate"
      [] op.name = "read_co2_and_temp"    -> "ReadCo2AndTemperature"

ZeroBuf == <<0, 0, 0, 0, 0, 0, 0, 0, 0>>

\* new_state asking for one response byte too few
new_state_short(u, op) ==
    CASE op.name = "read_co2_ppm" ->
           [kind |-> "ReadCo2",
            future |-> WriteAndReadResponse_new(u, READ_CO2, ZeroBuf, RESPONSE_LEN - 1)]
      [] op.name \in {"get_firmware_version", "upgrade_to_v5"} ->
           [kind |-> "GetFirmwareVersion",
            future |-> WriteAndReadResponse_new(u, GET_FIRMWARE_VERSION, ZeroBuf,
                                                RESPONSE_LEN - 1)]
      [] op.name = "set_self_calibrate" ->
           [kind |-> "SetSelfCalibrate",
            future |-> WriteAll_new(u, Frame_from(Cmd("SetSelfCalibrate", op.enabled)))]
      [] op.name = "read_co2_and_temp" ->
           [kind |-> "ReadCo2AndTemperature",
            future |-> WriteAndReadResponse_new(u, READ_CO2_AND_TEMPERATURE, ZeroBuf,
                                                RESPONSE_LEN - 1)]

\* new_state building the set-self-calibrate frame with the flag inverted
new_state_inverted(u, op) ==
    CASE op.name = "read_co2_ppm" ->
           [kind |-> "ReadCo2",
            future |-> WriteAndReadResponse_new(u, READ_CO2, ZeroBuf, RESPONSE_LEN)]
      [] op.name \in {"get_firmware_version", "upgrade_to_v5"} ->
           [kind |-> "GetFirmwareVersion",
            future |-> WriteAndReadResponse_new(u, GET_FIRMWARE_VERSION, ZeroBuf,
                                                RESPONSE_LEN)]
      [] op.name = "set_self_calibrate" ->
           [kind |-> "SetSelfCalibrate",
            future |-> WriteAll_new(u, Frame_from(Cmd("SetSelfCalibrate", ~op.enabled)))]
      [] op.name = "read_co2_and_temp" ->
           [kind |-> "ReadCo2AndTemperature",
            future |-> WriteAndReadResponse_new(u, READ_CO2_AND_TEMPERATURE, ZeroBuf,
                                                RESPONSE_LEN)]

\* the state a public operation moves the driver to when it finds it Idle
new_state(u, op) ==
    CASE op.name = "read_co2_ppm" ->
           [kind |-> "ReadCo2",
            future |-> WriteAndReadResponse_new(u, READ_CO2, ZeroBuf, RESPONSE_LEN)]
      [] op.name \in {"get_firmware_version", "upgrade_to_v5"} ->
           [kind |-> "GetFirmwareVersion",
            future |-> WriteAndReadResponse_new(u, GET_FIRMWARE_VERSION, ZeroBuf,
                                                RESPONSE_LEN)]
      [] op.name = "set_self_calibrate" ->
           [kind |-> "SetSelfCalibrate",
            future |-> WriteAll_new(u, Frame_from(Cmd("SetSelfCalibrate", op.enabled)))]
      [] op.name = "read_co2_and_temp" ->
           [kind |-> "ReadCo2AndTemperature",
            future |-> WriteAndReadResponse_new(u, READ_CO2_AND_TEMPERATURE, ZeroBuf,
                                                RESPONSE_LEN)]

\* starting the requested operation also when a future of another kind is in
\* flight, taking the transport out of that future
StartIfIdle_supersede(s, u, op) ==
    IF s.kind = "Idle"
    THEN IF u = None
         THEN [state |-> s, uart |-> u, panic |-> TRUE, started |-> FALSE]
         ELSE [state |-> new_state(Head(u), op), uart |-> None,
               panic |-> FALSE, started |-> TRUE]
    ELSE IF s.kind # OpKind(op)
    THEN [state |-> new_state(U, op), uart |-> None, panic |-> FALSE,
          started |-> TRUE]
    ELSE [state |-> s, uart |-> u, panic |-> FALSE, started |-> FALSE]

\* if let MhZ19CState::Idle = self.state { let uart = self.uart.take().unwrap(); ... }
StartIfIdle(s, u, op) ==
    IF s.kind = "Idle"
    THEN IF u = None
         THEN [state |-> s, uart |-> u, panic |-> TRUE, started |-> FALSE]
         ELSE [state |-> new_state(Head(u), op), uart |-> None,
               panic |-> FALSE, started |-> TRUE]
    ELSE [state |-> s, uart |-> u, panic |-> FALSE, started |-> FALSE]

\* the transport's fatal error turned into not-ready
map_err_swallow(res) == IF res.tag = "Other" THEN WouldBlock ELSE res

\* err.map(Error::UartError)
map_err(res) == IF res.tag = "Other" THEN Res("UartError", res.val) ELSE res

\* MhZ19C::poll dropping the progress of its future when the transport is not
\* ready, so that the next poll starts the operation over
MhZ19C_poll_forget(s, res) ==
    CASE s.kind = "Idle" -> [state |-> s, ret |-> Ok]
      [] s.kind = "SetSelfCalibrate" ->
           LET r == WriteAll_poll(s.future, res)
           IN  [state |-> IF res = WouldBlock
                          THEN [s EXCEPT !.future.bytes_written = 0]
                          ELSE [s EXCEPT !.future = r.future],
                ret |-> map_err(r.ret)]
      [] OTHER ->
           LET r == WriteAndReadResponse_poll(s.future, res)
               w == IF s.kind = "ReadCo2" THEN READ_CO2
                    ELSE IF s.kind = "GetFirmwareVersion" THEN GET_FIRMWARE_VERSION
                    ELSE READ_CO2_AND_TEMPERATURE
           IN  [state |-> IF res = WouldBlock
                          THEN [s EXCEPT !.future =
                                   WriteAndReadResponse_new(U, w, ZeroBuf, RESPONSE_LEN)]
                          ELSE [s EXCEPT !.future = r.future],
                ret |-> map_err(r.ret)]

\* MhZ19C::poll: one iteration of the loop of the polled future
MhZ19C_poll(s, res) ==
    CASE s.kind = "Idle" -> [state |-> s, ret |-> Ok]
      [] s.kind = "SetSelfCalibrate" ->
           LET r == WriteAll_poll(s.future, res)
           IN  [state |-> [s EXCEPT !.future = r.future], ret |-> map_err(r.ret)]
      [] OTHER ->
           LET r == WriteAndReadResponse_poll(s.future, res)
           IN  [state |-> [s EXCEPT !.future = r.future], ret |-> map_err(r.ret)]

\* recover_uart forgetting to put the transport back
recover_uart_dropped(s, u) == u

\* MhZ19C::recover_uart: the value of self.uart afterwards
recover_uart(s, u) ==
    CASE s.kind = "Idle" -> u
      [] s.kind = "SetSelfCalibrate" -> Some(WriteAll_into_return_value(s.future))
      [] OTHER -> Some(WriteAndReadResponse_into_return_value(s.future).uart)

\* the typed result each operation makes of the buffer of its completed future
read_co2_ppm_result(buf) ==
    LET r == unpack_return_frame(Cmd("ReadCo2", FALSE), buf) IN
    IF ~IsOk(r) THEN r ELSE Res("Ok", <<u16_from_be_bytes(Slice(r.val, 0, 2))>>)

\* get_firmware_version returning the data bytes 1..4 instead of 0..3
get_firmware_version_result_shifted(buf) ==
    LET r == unpack_return_frame(Cmd("GetFirmwareVersion", FALSE), buf) IN
    IF ~IsOk(r) THEN r ELSE Res("Ok", <<r.val[2], r.val[3], r.val[4], r.val[5]>>)

get_firmware_version_result(buf) ==
    LET r == unpack_return_frame(Cmd("GetFirmwareVersion", FALSE), buf) IN
    IF ~IsOk(r) THEN r ELSE Res("Ok", <<r.val[1], r.val[2], r.val[3], r.val[4]>>)

\* read_co2_and_temp taking the CO2 field first and the temperature second
read_co2_and_temp_result_swapped(buf) ==
    LET r == unpack_return_frame(Cmd("ReadCo2AndTemperature", FALSE), buf) IN
    IF ~IsOk(r) THEN r
    ELSE Res("Ok", [co2_ppm |-> u16_from_be_bytes(Slice(r.val, 0, 2)),
                    temp_raw |-> u16_from_be_bytes(Slice(r.val, 2, 4)),
                    temp_div |-> 100])

\* temp_celsius is the rational temp_raw / temp_div
read_co2_and_temp_result(buf) ==
    LET r == unpack_return_frame(Cmd("ReadCo2AndTemperature", FALSE), buf) IN
    IF ~IsOk(r) THEN r
    ELSE Res("Ok", [co2_ppm |-> u16_from_be_bytes(Slice(r.val, 2, 4)),
                    temp_raw |-> u16_from_be_bytes(Slice(r.val, 0, 2)),
                    temp_div |-> 100])

\* upgrade_to_v5 reporting only the major version when it refuses
upgrade_to_v5_result_truncated(fw) ==
    IF ~IsOk(fw) THEN fw
    ELSE IF fw.val[2] >= ASCII_5 THEN Res("Ok", <<"MhZ19CFw5">>)
    ELSE Res("NotSupportedByFirmware", <<fw.val[1], fw.val[2]>>)

\* upgrade_to_v5 testing the character at index 0 of the version
upgrade_to_v5_result_first(fw) ==
    IF ~IsOk(fw) THEN fw
    ELSE IF fw.val[1] >= ASCII_5 THEN Res("Ok", <<"MhZ19CFw5">>)
    ELSE Res("NotSupportedByFirmware", fw.val)

\* upgrade_to_v5 applied to what get_firmware_version returned
upgrade_to_v5_result(fw) ==
    IF ~IsOk(fw) THEN fw
    ELSE IF fw.val[2] >= ASCII_5 THEN Res("Ok", <<"MhZ19CFw5">>)
    ELSE Res("NotSupportedByFirmware", fw.val)

\* Rust's buf[a..b] is in range
slice_in_range(buf, a, b) == a <= b /\ b <= Len(buf)

\* the slices and indices each operation takes of the data of its response
\* are in range: data[..2]; data[0] .. data[3]; data[2..4] and data[..2]
decode_in_range(op, d) ==
    CASE op.name = "read_co2_ppm" -> slice_in_range(d, 0, 2)
      [] op.name \in {"get_firmware_version", "upgrade_to_v5"} -> Len(d) >= 4
      [] op.name = "read_co2_and_temp" ->
           slice_in_range(d, 2, 4) /\ slice_in_range(d, 0, 2)
      [] OTHER -> TRUE

\* the command whose response an operation decodes
CommandOf(op) ==
    CASE op.name = "read_co2_ppm" -> Cmd("ReadCo2", FALSE)
      [] op.name \in {"get_firmware_version", "upgrade_to_v5"} ->
           Cmd("GetFirmwareVersion", FALSE)
      [] op.name = "read_co2_and_temp" -> Cmd("ReadCo2AndTemperature", FALSE)
      [] OTHER -> Cmd("SetSelfCalibrate", op.enabled)

\* decoding the buffer of a completed future panics
decode_panics(op, buf) ==
    LET r == unpack_return_frame(CommandOf(op), buf) IN
    IsOk(r) /\ ~decode_in_range(op, r.val)

\* the typed result of op, from the buffer of its completed future
decode(op, buf) ==
    CASE op.name = "read_co2_ppm" -> read_co2_ppm_result(buf)
      [] op.name = "get_firmware_version" -> get_firmware_version_result(buf)
      [] op.name = "read_co2_and_temp" -> read_co2_and_temp_result(buf)

\* the matching branch decoding before it puts the transport back
Finish_decode_first(op, taken) ==
    IF op.name = "set_self_calibrate"
    THEN [uart |-> Some(WriteAll_into_return_value(taken.future)), ret |-> Ok]
    ELSE LET v == WriteAndReadResponse_into_return_value(taken.future)
             r == CASE op.name = "read_co2_ppm" -> read_co2_ppm_result(v.buf)
                    [] op.name = "get_firmware_version" ->
                         get_firmware_version_result(v.buf)
                    [] op.name = "upgrade_to_v5" ->
                         upgrade_to_v5_result(get_firmware_version_result(v.buf))
                    [] op.name = "read_co2_and_temp" ->
                         read_co2_and_temp_result(v.buf)
         IN  [uart |-> IF r.tag \in {"Ok", "NotSupportedByFirmware"}
                       THEN Some(v.uart) ELSE None,
              ret |-> r]

\* the branch `if let MhZ19CState::<kind of op>(future) = state`
Finish(op, taken) ==
    IF op.name = "set_self_calibrate"
    THEN [uart |-> Some(WriteAll_into_return_value(taken.future)), ret |-> Ok]
    ELSE LET v == WriteAndReadResponse_into_return_value(taken.future) IN
         [uart |-> Some(v.uart),
          ret |-> CASE op.name = "read_co2_ppm" -> read_co2_ppm_result(v.buf)
                    [] op.name = "get_firmware_version" ->
                         get_firmware_version_result(v.buf)
                    [] op.name = "upgrade_to_v5" ->
                         upgrade_to_v5_result(get_firmware_version_result(v.buf))
                    [] op.name = "read_co2_and_temp" ->
                         read_co2_and_temp_result(v.buf)]

\* matching a set-self-calibrate in flight only if it carries the flag asked for
KindMatches_flag(op, taken) ==
    /\ taken.kind = OpKind(op)
    /\ taken.kind = "SetSelfCalibrate"
         => taken.future.buf = Frame_from(Cmd("SetSelfCalibrate", op.enabled))

\* matching on the type of the future instead of the kind of the operation
KindMatches_loose(op, taken) ==
    (taken.kind = "SetSelfCalibrate") = (OpKind(op) = "SetSelfCalibrate")

KindMatches(op, taken) == taken.kind = OpKind(op)

\* set_self_calibrate reporting not-ready in the call that wrote the last byte
\* of its frame
AfterPoll_late(s, u, op, pollret) ==
    IF pollret.tag = "Continue"
    THEN [state |-> s, uart |-> u, ret |-> Continue, panic |-> FALSE,
          started |-> FALSE, finished |-> "none"]
    ELSE IF ~IsOk(pollret)
    THEN [state |-> s, uart |-> u, ret |-> pollret, panic |-> FALSE,
          started |-> FALSE, finished |-> "none"]
    ELSE IF KindMatches(op, s)
    THEN LET f == Finish(op, s)
         IN  [state |-> Idle, uart |-> f.uart,
              ret |-> IF s.kind = "SetSelfCalibrate" THEN WouldBlock ELSE f.ret,
              panic |-> FALSE, started |-> FALSE, finished |-> "none"]
    ELSE LET st == StartIfIdle(Idle, recover_uart(s, u), op)
         IN  [state |-> st.state, uart |-> st.uart, ret |-> Continue,
              panic |-> st.panic, started |-> st.started, finished |-> s.kind]

\* a call that returns the result of its completed future but leaves the
\* future in the driver
AfterPoll_keep(s, u, op, pollret) ==
    IF pollret.tag = "Continue"
    THEN [state |-> s, uart |-> u, ret |-> Continue, panic |-> FALSE,
          started |-> FALSE, finished |-> "none"]
    ELSE IF ~IsOk(pollret)
    THEN [state |-> s, uart |-> u, ret |-> pollret, panic |-> FALSE,
          started |-> FALSE, finished |-> "none"]
    ELSE IF KindMatches(op, s)
    THEN LET f == Finish(op, s)
         IN  [state |-> s, uart |-> u, ret |-> f.ret, panic |-> FALSE,
              started |-> FALSE, finished |-> "none"]
    ELSE LET st == StartIfIdle(Idle, recover_uart(s, u), op)
         IN  [state |-> st.state, uart |-> st.uart, ret |-> Continue,
              panic |-> st.panic, started |-> st.started, finished |-> s.kind]

\* a call that, when the transport fails, gives up the future in flight and
\* puts the transport back
AfterPoll_recovering(s, u, op, pollret) ==
    IF pollret.tag = "Continue"
    THEN [state |-> s, uart |-> u, ret |-> Continue, panic |-> FALSE,
          started |-> FALSE, finished |-> "none"]
    ELSE IF pollret.tag = "UartError"
    THEN [state |-> Idle, uart |-> recover_uart(s, u), ret |-> pollret,
          panic |-> FALSE, started |-> FALSE, finished |-> "none"]
    ELSE IF ~IsOk(pollret)
    THEN [state |-> s, uart |-> u, ret |-> pollret, panic |-> FALSE,
          started |-> FALSE, finished |-> "none"]
    ELSE IF KindMatches(op, s)
    THEN LET f == Finish(op, s)
         IN  [state |-> Idle, uart |-> f.uart, ret |-> f.ret, panic |-> FALSE,
              started |-> FALSE, finished |-> "none"]
    ELSE LET st == StartIfIdle(Idle, recover_uart(s, u), op)
         IN  [state |-> st.state, uart |-> st.uart, ret |-> Continue,
              panic |-> st.panic, started |-> st.started, finished |-> s.kind]

\* a call that validates the response of a foreign future it has completed
\* and reports what is wrong with it
AfterPoll_validating(s, u, op, pollret) ==
    IF pollret.tag = "Continue"
    THEN [state |-> s, uart |-> u, ret |-> Continue, panic |-> FALSE,
          started |-> FALSE, finished |-> "none"]
    ELSE IF ~IsOk(pollret)
    THEN [state |-> s, uart |-> u, ret |-> pollret, panic |-> FALSE,
          started |-> FALSE, finished |-> "none"]
    ELSE IF KindMatches(op, s)
    THEN LET f == Finish(op, s)
         IN  [state |-> Idle, uart |-> f.uart, ret |-> f.ret, panic |-> FALSE,
              started |-> FALSE, finished |-> "none"]
    ELSE IF /\ s.kind # "SetSelfCalibrate"
            /\ ~IsOk(validate(WriteAndReadResponse_into_return_value(s.future).buf))
    THEN [state |-> Idle, uart |-> recover_uart(s, u),
          ret |-> validate(WriteAndReadResponse_into_return_value(s.future).buf),
          panic |-> FALSE, started |-> FALSE, finished |-> s.kind]
    ELSE LET st == StartIfIdle(Idle, recover_uart(s, u), op)
         IN  [state |-> st.state, uart |-> st.uart, ret |-> Continue,
              panic |-> st.panic, started |-> st.started, finished |-> s.kind]

\* a call that, when a foreign future fails, drops it and starts its own
\* operation
AfterPoll_failover(s, u, op, pollret) ==
    IF pollret.tag = "Continue"
    THEN [state |-> s, uart |-> u, ret |-> Continue, panic |-> FALSE,
          started |-> FALSE, finished |-> "none"]
    ELSE IF pollret.tag = "UartError" /\ ~KindMatches(op, s)
    THEN LET st == StartIfIdle(Idle, recover_uart(s, u), op)
         IN  [state |-> st.state, uart |-> st.uart, ret |-> Continue,
              panic |-> st.panic, started |-> st.started, finished |-> s.kind]
    ELSE IF ~IsOk(pollret)
    THEN [state |-> s, uart |-> u, ret |-> pollret, panic |-> FALSE,
          started |-> FALSE, finished |-> "none"]
    ELSE IF KindMatches(op, s)
    THEN LET f == Finish(op, s)
         IN  [state |-> Idle, uart |-> f.uart, ret |-> f.ret, panic |-> FALSE,
              started |-> FALSE, finished |-> "none"]
    ELSE LET st == StartIfIdle(Idle, recover_uart(s, u), op)
         IN  [state |-> st.state, uart |-> st.uart, ret |-> Continue,
              panic |-> st.panic, started |-> st.started, finished |-> s.kind]

\* a call that finds a foreign future completed reporting not-ready instead of
\* going round its loop
AfterPoll_wouldblock(s, u, op, pollret) ==
    IF pollret.tag = "Continue"
    THEN [state |-> s, uart |-> u, ret |-> Continue, panic |-> FALSE,
          started |-> FALSE, finished |-> "none"]
    ELSE IF ~IsOk(pollret)
    THEN [state |-> s, uart |-> u, ret |-> pollret, panic |-> FALSE,
          started |-> FALSE, finished |-> "none"]
    ELSE IF KindMatches(op, s)
    THEN LET f == Finish(op, s)
         IN  [state |-> Idle, uart |-> f.uart, ret |-> f.ret, panic |-> FALSE,
              started |-> FALSE, finished |-> "none"]
    ELSE [state |-> Idle, uart |-> recover_uart(s, u), ret |-> WouldBlock,
          panic |-> FALSE, started |-> FALSE, finished |-> s.kind]

\* a call that goes round its loop once more, starting its operation again,
\* when the response it received does not decode
AfterPoll_retry(s, u, op, pollret) ==
    IF pollret.tag = "Continue"
    THEN [state |-> s, uart |-> u, ret |-> Continue, panic |-> FALSE,
          started |-> FALSE, finished |-> "none"]
    ELSE IF ~IsOk(pollret)
    THEN [state |-> s, uart |-> u, ret |-> pollret, panic |-> FALSE,
          started |-> FALSE, finished |-> "none"]
    ELSE IF KindMatches(op, s)
    THEN LET f == Finish(op, s)
             st == StartIfIdle(Idle, f.uart, op)
         IN  IF f.ret.tag \in {"Ok", "NotSupportedByFirmware"}
             THEN [state |-> Idle, uart |-> f.uart, ret |-> f.ret, panic |-> FALSE,
                   started |-> FALSE, finished |-> "none"]
             ELSE [state |-> st.state, uart |-> st.uart, ret |-> Continue,
                   panic |-> st.panic, started |-> st.started, finished |-> "none"]
    ELSE LET st == StartIfIdle(Idle, recover_uart(s, u), op)
         IN  [state |-> st.state, uart |-> st.uart, ret |-> Continue,
              panic |-> st.panic, started |-> st.started, finished |-> s.kind]

\* The rest of the loop body of a public operation after self.poll() returned
\* pollret, up to the return of the call or to the next transport invocation.
\* ret = Continue: the call goes on.
AfterPoll(s, u, op, pollret) ==
    IF pollret.tag = "Continue"
    THEN [state |-> s, uart |-> u, ret |-> Continue, panic |-> FALSE,
          started |-> FALSE, finished |-> "none"]
    ELSE IF ~IsOk(pollret)
    THEN [state |-> s, uart |-> u, ret |-> pollret, panic |-> FALSE,
          started |-> FALSE, finished |-> "none"]
    ELSE IF KindMatches(op, s)
    THEN LET f == Finish(op, s)
         IN  [state |-> Idle, uart |-> f.uart, ret |-> f.ret, panic |-> FALSE,
              started |-> FALSE, finished |-> "none"]
    ELSE LET st == StartIfIdle(Idle, recover_uart(s, u), op)
         IN  [state |-> st.state, uart |-> st.uart, ret |-> Continue,
              panic |-> st.panic, started |-> st.started, finished |-> s.kind]

(* ------------------------- the sensor's frames ------------------------- *)
WithChecksum(f8) == f8 \o <<checksum(Slice(f8, 1, 8))>>

READ_CO2_RESPONSE == <<255, 134, 3, 32, 18, 52, 86, 120, 67>>
FIRMWARE_0515_RESPONSE == WithChecksum(<<255, 160, 48, 53, 49, 53, 0, 0>>)
FIRMWARE_0400_RESPONSE == WithChecksum(<<255, 160, 48, 52, 48, 48, 0, 0>>)
READ_CO2_AND_TEMPERATURE_RESPONSE == WithChecksum(<<255, 133, 9, 96, 3, 32, 0, 0>>)

\* what the sensor (or a noisy line) may send: the well-formed responses, a
\* response with a wrong start byte, one with a wrong checksum, and a frame
\* carrying the command marker
Responses ==
    { READ_CO2_RESPONSE,
      [READ_CO2_RESPONSE EXCEPT ![1] = 0],
      [READ_CO2_RESPONSE EXCEPT ![9] = 0],
      READ_CO2,
      FIRMWARE_0515_RESPONSE, FIRMWARE_0400_RESPONSE,
      READ_CO2_AND_TEMPERATURE_RESPONSE }

(* ------------------------------ the calls ------------------------------ *)
NoPos == [kind |-> "Idle", tag |-> "none", cursor |-> 0]
NoRet == Res("none", NoVal)
\* finished: the kind of the future a call has completed and discarded;
\* last: what the last transport invocation of the call returned;
\* dropped: the read buffer that was discarded with that future
NoCall == [active |-> FALSE, op |-> Op("none", FALSE), finished |-> "none",
           last |-> NoRet, dropped |-> <<>>]
NoNb == [kind |-> "none"]

\* the position of a future: its sub-state and its cursor
Pos(s) ==
    CASE s.kind = "Idle" -> NoPos
      [] s.kind = "SetSelfCalibrate" ->
           [kind |-> s.kind, tag |-> "Write", cursor |-> s.future.bytes_written]
      [] OTHER ->
           LET st == s.future.state IN
           [kind |-> s.kind, tag |-> st.tag,
            cursor |-> CASE st.tag = "Write" -> st.future.bytes_written
                         [] st.tag = "Read" -> st.future.bytes_read
                         [] OTHER -> 0]

\* the transport invocation the poll of s makes next
NextIo(s) ==
    CASE s.kind = "Idle" -> "none"
      [] s.kind = "SetSelfCalibrate" -> "write"
      [] s.future.state.tag = "Write" -> "write"
      [] s.future.state.tag = "Flush" -> "flush"
      [] s.future.state.tag = "Read" -> "read"
      [] OTHER -> "none"

\* the WriteAll resp. ReadMultiple that the poll of s polls
PolledWriteAll(s) ==
    IF s.kind = "SetSelfCalibrate" THEN s.future ELSE s.future.state.future
PolledReadMultiple(s) == s.future.state.future

Init ==
    /\ state = Idle
    /\ uart = Some(U)
    /\ fw5 = FALSE
    /\ panicked = FALSE
    /\ call = NoCall
    /\ ret = NoRet
    /\ started = 0
    /\ opBase = [w |-> 0, r |-> 0]
    /\ write_buf = <<>>
    /\ flushed_up_to = 0
    /\ rx_line = <<>>
    /\ rx_count = 0
    /\ received = <<>>
    /\ nb = NoNb

\* into_inner(mut self) has taken the driver: no method can be called any more
Consumed == call.op.name = "into_inner"

\* Entry of a public call: the head of its loop, up to the first transport
\* invocation of self.poll().
Enter(op) ==
    /\ ~call.active
    /\ ~panicked
    /\ ~Consumed
    /\ started < MaxOps \/ state.kind = OpKind(op)
    /\ LET st == StartIfIdle(state, uart, op) IN
       /\ state' = st.state
       /\ uart' = st.uart
       /\ panicked' = st.panic
       /\ started' = IF st.started THEN started + 1 ELSE started
       /\ opBase' = IF st.started THEN [w |-> Len(write_buf), r |-> rx_count]
                    ELSE opBase
       /\ call' = [active |-> ~st.panic, op |-> op, finished |-> "none",
                   last |-> NoRet, dropped |-> <<>>]
       /\ received' = IF st.started THEN <<>> ELSE received
    /\ ret' = NoRet
    /\ UNCHANGED <<fw5, write_buf, flushed_up_to, rx_line, rx_count, nb>>

read_co2_ppm == Enter(Op("read_co2_ppm", FALSE))
get_firmware_version == Enter(Op("get_firmware_version", FALSE))
set_self_calibrate == \E enabled \in BOOLEAN : Enter(Op("set_self_calibrate", enabled))
upgrade_to_v5 == Enter(Op("upgrade_to_v5", FALSE))
\* read_co2_and_temp offered by the plain driver as well
read_co2_and_temp_ungated == Enter(Op("read_co2_and_temp", FALSE))

\* only an MhZ19CFw5 has this method
read_co2_and_temp == fw5 /\ Enter(Op("read_co2_and_temp", FALSE))

\* MhZ19C::into_inner: the transport it returns, the read buffer it drops with
\* the future, and whether self.uart.take().unwrap() panics
into_inner_result(s, u) ==
    CASE s.kind = "Idle" ->
           IF u = None THEN [panic |-> TRUE, uart |-> None, buf |-> <<>>]
           ELSE [panic |-> FALSE, uart |-> u, buf |-> <<>>]
      [] s.kind = "SetSelfCalibrate" ->
           [panic |-> FALSE, uart |-> Some(WriteAll_into_return_value(s.future)),
            buf |-> <<>>]
      [] OTHER ->
           [panic |-> FALSE,
            uart |-> Some(WriteAndReadResponse_into_return_value(s.future).uart),
            buf |-> WriteAndReadResponse_into_return_value(s.future).buf]

\* into_inner(mut self) -> U, between two calls: the driver and the future in
\* flight are dropped, the transport goes to the caller
into_inner ==
    /\ ~call.active
    /\ ~panicked
    /\ ~Consumed
    /\ \E r \in {into_inner_result(state, uart)} :
         /\ panicked' = r.panic
         /\ ret' = IF r.panic THEN NoRet ELSE Res("Transport", r.uart)
    /\ state' = Idle
    /\ uart' = None
    /\ call' = [call EXCEPT !.op = Op("into_inner", FALSE), !.finished = "none",
                            !.dropped = <<>>]
    /\ UNCHANGED <<fw5, started, opBase, received, uartVars, nb>>

\* What the call in progress does after a transport invocation returned res;
\* wlen and rcount are the transport counters after that invocation.
Resume(res, wlen, rcount) ==
    \E p \in {MhZ19C_poll(state, res)} :
    \E a \in {AfterPoll(p.state, uart, call.op, p.ret)} :
        /\ state' = a.state
        /\ uart' = a.uart
        /\ panicked' = a.panic
        /\ started' = IF a.started THEN started + 1 ELSE started
        /\ opBase' = IF a.started THEN [w |-> wlen, r |-> rcount] ELSE opBase
        /\ ret' = IF a.ret.tag = "Continue" THEN ret ELSE a.ret
        /\ fw5' = (fw5 \/ (call.op.name = "upgrade_to_v5" /\ IsOk(a.ret)))
        /\ call' = [call EXCEPT
                      !.active = (a.ret.tag = "Continue" /\ ~a.panic),
                      !.finished = IF a.finished # "none" THEN a.finished ELSE @,
                      !.last = IF IsOk(res) THEN Ok ELSE res,
                      !.dropped =
                          IF a.finished \notin {"none", "SetSelfCalibrate"}
                          THEN WriteAndReadResponse_into_return_value(
                                   p.state.future).buf
                          ELSE @]
        /\ received' = IF a.started \/ a.state.kind = "Idle" THEN <<>>
                       ELSE IF NextIo(state) = "read" /\ IsOk(res)
                            THEN Append(received, res.val[1])
                            ELSE received

\* uart.write(c) of WriteAll::poll returns res
Write(res) ==
    /\ call.active
    /\ NextIo(state) = "write"
    /\ IF ~WriteAll_index_ok(PolledWriteAll(state))
       THEN /\ panicked' = TRUE
            /\ call' = [call EXCEPT !.active = FALSE]
            /\ UNCHANGED <<state, uart, fw5, ret, started, opBase, write_buf,
                           received>>
       ELSE /\ write_buf' = IF IsOk(res)
                            THEN Append(write_buf, WriteAll_byte(PolledWriteAll(state)))
                            ELSE write_buf
            /\ Resume(res, Len(write_buf'), rx_count)
    /\ UNCHANGED <<flushed_up_to, rx_line, rx_count, nb>>

\* uart.flush() of WriteAndReadResponseState::advance returns res
Flush(res) ==
    /\ call.active
    /\ NextIo(state) = "flush"
    /\ flushed_up_to' = IF IsOk(res) THEN Len(write_buf) ELSE flushed_up_to
    /\ Resume(res, Len(write_buf), rx_count)
    /\ UNCHANGED <<write_buf, rx_line, rx_count, nb>>

\* uart.read() of ReadMultiple::poll returns Ok(c), c being the sensor's next byte
ReadOk ==
    /\ call.active
    /\ NextIo(state) = "read"
    /\ \E f \in IF rx_line # <<>> THEN {rx_line} ELSE Responses :
         /\ rx_line' = Tail(f)
         /\ rx_count' = rx_count + 1
         /\ IF ~ReadMultiple_index_ok(PolledReadMultiple(state))
            THEN /\ panicked' = TRUE
                 /\ call' = [call EXCEPT !.active = FALSE]
                 /\ UNCHANGED <<state, uart, fw5, ret, started, opBase, received>>
            ELSE Resume(Res("Ok", <<Head(f)>>), Len(write_buf), rx_count + 1)
    /\ UNCHANGED <<write_buf, flushed_up_to, nb>>

\* uart.read() of ReadMultiple::poll returns not-ready or a fatal error
ReadErr(res) ==
    /\ call.active
    /\ NextIo(state) = "read"
    /\ ~IsOk(res)
    /\ Resume(res, Len(write_buf), rx_count)
    /\ UNCHANGED <<write_buf, flushed_up_to, rx_line, rx_count, nb>>

Next ==
    \/ read_co2_ppm
    \/ get_firmware_version
    \/ set_self_calibrate
    \/ upgrade_to_v5
    \/ read_co2_and_temp
    \/ \E res \in UnitOutcomes : Write(res)
    \/ \E res \in UnitOutcomes : Flush(res)
    \/ ReadOk
    \/ \E res \in UnitOutcomes : ReadErr(res)
    \/ into_inner

Spec == Init /\ [][Next]_vars

(* --------------- the primitive futures polled on their own ------------- *)
\* byte values of the buffers and of the bytes read
NbBytes == {7, 9}

RECURSIVE SeqsOfLen(_, _)
SeqsOfLen(S, n) ==
    IF n = 0 THEN {<<>>}
    ELSE {Append(q, x) : q \in SeqsOfLen(S, n - 1), x \in S}

Zeros(n) == [i \in 1..n |-> 0]

\* delivered: the bytes uart.read() returned; stalled: a poll was suspended;
\* last: what the last transport invocation returned.
\* a WriteAll over any buffer of 1..MaxLen bytes, a ReadMultiple of read_len
\* bytes into a zeroed buffer at least that long, or a WriteAndReadResponse
\* made of the two
NbFutures ==
    { [kind |-> "WriteAll", future |-> WriteAll_new(U, buf), ret |-> NoRet,
       delivered |-> <<>>, stalled |-> FALSE, last |-> NoRet] :
        buf \in UNION {SeqsOfLen(NbBytes, n) : n \in 1..MaxLen} }
    \cup
    { [kind |-> "ReadMultiple",
       future |-> ReadMultiple_new(U, Zeros(pair[1]), pair[2]),
       ret |-> NoRet, delivered |-> <<>>, stalled |-> FALSE, last |-> NoRet] :
        pair \in {q \in (1..MaxLen) \X (1..MaxLen) : q[2] <= q[1]} }
    \cup
    { [kind |-> "WriteAndReadResponse",
       future |-> WriteAndReadResponse_new(U, buf, Zeros(pair[1]), pair[2]),
       ret |-> NoRet, delivered |-> <<>>, stalled |-> FALSE, last |-> NoRet,
       repolled |-> FALSE] :
        buf \in UNION {SeqsOfLen(NbBytes, n) : n \in 1..MaxLen},
        pair \in {q \in (1..MaxLen) \X (1..MaxLen) : q[2] <= q[1]} }

InitNb ==
    /\ state = Idle
    /\ uart = None
    /\ fw5 = FALSE
    /\ panicked = FALSE
    /\ call = NoCall
    /\ ret = NoRet
    /\ started = 0
    /\ opBase = [w |-> 0, r |-> 0]
    /\ write_buf = <<>>
    /\ flushed_up_to = 0
    /\ rx_line = <<>>
    /\ rx_count = 0
    /\ received = <<>>
    /\ nb \in NbFutures

\* One iteration of the loop of WriteAll::poll; a future is not polled again
\* after it returned Ok.
NbWrite(res) ==
    /\ nb.kind = "WriteAll"
    /\ ~IsOk(nb.ret)
    /\ ~panicked
    /\ IF ~WriteAll_index_ok(nb.future)
       THEN /\ panicked' = TRUE
            /\ UNCHANGED <<nb, write_buf>>
       ELSE LET r == WriteAll_poll(nb.future, res) IN
            /\ write_buf' = IF IsOk(res)
                            THEN Append(write_buf, WriteAll_byte(nb.future))
                            ELSE write_buf
            /\ nb' = [nb EXCEPT !.future = r.future, !.ret = r.ret,
                                !.stalled = @ \/ res = WouldBlock,
                                !.last = IF IsOk(res) THEN Ok ELSE res]
            /\ UNCHANGED panicked
    /\ UNCHANGED <<state, uart, fw5, call, ret, started, opBase, received,
                   flushed_up_to, rx_line, rx_count>>

\* One iteration of the loop of ReadMultiple::poll, uart.read() returning res.
NbReadStep(res) ==
    /\ nb.kind = "ReadMultiple"
    /\ ~IsOk(nb.ret)
    /\ ~panicked
    /\ IF IsOk(res) /\ ~ReadMultiple_index_ok(nb.future)
       THEN /\ panicked' = TRUE
            /\ UNCHANGED <<nb, rx_count>>
       ELSE LET r == ReadMultiple_poll(nb.future, res) IN
            /\ nb' = [nb EXCEPT !.future = r.future, !.ret = r.ret,
                                !.delivered = IF IsOk(res) THEN Append(@, res.val[1])
                                              ELSE @,
                                !.stalled = @ \/ res = WouldBlock,
                                !.last = IF IsOk(res) THEN Ok ELSE res]
            /\ rx_count' = IF IsOk(res) THEN rx_count + 1 ELSE rx_count
            /\ UNCHANGED panicked
    /\ UNCHANGED <<state, uart, fw5, call, ret, started, opBase, received,
                   write_buf, flushed_up_to, rx_line>>

NbRead == \E res \in {Res("Ok", <<c>>) : c \in NbBytes} \cup (UnitOutcomes \ {Ok}) :
            NbReadStep(res)

\* nb::Result<u8, E> of read
NbReadOutcomes == {Res("Ok", <<c>>) : c \in NbBytes} \cup (UnitOutcomes \ {Ok})

\* One iteration of the loop of WriteAndReadResponse::poll: the one transport
\* invocation its sub-state makes returns res.
NbWriteAndRead(res) ==
    /\ nb.kind = "WriteAndReadResponse"
    /\ ~IsOk(nb.ret)
    /\ ~panicked
    /\ \E tag \in {nb.future.state.tag} :
         /\ res \in IF tag = "Read" THEN NbReadOutcomes ELSE UnitOutcomes
         /\ IF \/ tag = "Write" /\ ~WriteAll_index_ok(nb.future.state.future)
               \/ tag = "Read" /\ IsOk(res)
                    /\ ~ReadMultiple_index_ok(nb.future.state.future)
            THEN /\ panicked' = TRUE
                 /\ UNCHANGED <<nb, write_buf, flushed_up_to, rx_count>>
            ELSE \E r \in {WriteAndReadResponse_poll(nb.future, res)} :
                 /\ nb' = [nb EXCEPT
                             !.future = r.future, !.ret = r.ret,
                             !.delivered = IF tag = "Read" /\ IsOk(res)
                                           THEN Append(@, res.val[1]) ELSE @,
                             !.stalled = @ \/ res = WouldBlock,
                             !.last = IF IsOk(res) THEN Ok ELSE res]
                 /\ write_buf' =
                      IF tag = "Write" /\ IsOk(res)
                      THEN Append(write_buf, WriteAll_byte(nb.future.state.future))
                      ELSE write_buf
                 /\ flushed_up_to' = IF tag = "Flush" /\ IsOk(res)
                                     THEN Len(write_buf) ELSE flushed_up_to
                 /\ rx_count' = IF tag = "Read" /\ IsOk(res)
                                 THEN rx_count + 1 ELSE rx_count
                 /\ UNCHANGED panicked
    /\ UNCHANGED <<state, uart, fw5, call, ret, started, opBase, rx_line,
                   received>>

\* WriteAndReadResponse::poll on a future that has completed; repolled
\* records that this has been done
NbRepoll ==
    /\ nb.kind = "WriteAndReadResponse"
    /\ nb.future.state.tag = "Completed"
    /\ ~nb.repolled
    /\ ~panicked
    /\ \E r \in {WriteAndReadResponse_poll(nb.future, NoRet)} :
         nb' = [nb EXCEPT !.future = r.future, !.ret = r.ret, !.repolled = TRUE]
    /\ UNCHANGED <<state, uart, fw5, panicked, call, ret, started, opBase,
                   received, uartVars>>

NextNb ==
    \/ \E res \in UnitOutcomes : NbWrite(res)
    \/ NbRead
    \/ \E res \in UnitOutcomes \cup NbReadOutcomes : NbWriteAndRead(res)
    \/ NbRepoll

SpecNb == InitNb /\ [][NextNb]_vars

(* ------------------ the codec applied to bounded inputs ---------------- *)
\* values of the start byte, of byte 1 and of the data bytes of a received frame
StartBytes == {START_BYTE, 0, 254}
MarkerBytes == {COMMAND_MAGIC_BYTE, OP_SET_SELF_CALIBRATE, OP_READ_CO2_AND_TEMPERATURE,
                OP_READ_CO2, OP_GET_FIRMWARE_VERSION}
DataBytes == {3, 255}
\* bytes of the sequences whose checksum is taken
ChecksumBytes == {0, 1, 134, 255}
\* characters of a firmware version: '0', '1', '4', '5', '6'
VersionChars == {48, 49, 52, 53, 54}

\* 9-byte frames as the transport may deliver them: with a right checksum,
\* with one that is off by one, and with a zero in its place
CodecFrames ==
    UNION { LET f8 == <<b0, b1>> \o d \o <<0, 0>> IN
            { WithChecksum(f8), f8 \o <<(checksum(Slice(f8, 1, 8)) + 1) % 256>>,
              f8 \o <<0>> } :
            b0 \in StartBytes, b1 \in MarkerBytes, d \in SeqsOfLen(DataBytes, 4) }
    \cup Responses

\* the operations that decode a response
DecodingOps ==
    { Op("read_co2_ppm", FALSE), Op("get_firmware_version", FALSE),
      Op("read_co2_and_temp", FALSE) }

\* one application of a function of the codec to one input; out is its result
CodecInputs ==
    { [kind |-> "unpack_return_frame", command |-> c, frame |-> f, out |-> NoRet] :
        c \in Commands, f \in CodecFrames }
    \cup { [kind |-> "validate", frame |-> f, out |-> NoRet] : f \in CodecFrames }
    \cup { [kind |-> "has_valid_checksum", frame |-> f, out |-> NoRet] :
             f \in CodecFrames }
    \cup { [kind |-> "decode", op |-> o, frame |-> f, out |-> NoRet] :
             o \in DecodingOps, f \in CodecFrames }
    \cup { [kind |-> "accessors", frame |-> f, out |-> NoRet] : f \in CodecFrames }
    \cup { [kind |-> "upgrade_to_v5", fw |-> v, out |-> NoRet] :
             v \in SeqsOfLen(VersionChars, 4) }
    \cup { [kind |-> "from", command |-> c, out |-> NoRet] : c \in Commands }
    \cup { [kind |-> "serialize", command |-> c, out |-> NoRet] : c \in Commands }
    \cup { [kind |-> "checksum", buf |-> b, out |-> NoRet] :
             b \in UNION {SeqsOfLen(ChecksumBytes, n) : n \in 0..MaxLen}
                   \cup {Slice(READ_CO2, 1, 8)} }

InitCodec ==
    /\ state = Idle
    /\ uart = None
    /\ fw5 = FALSE
    /\ panicked = FALSE
    /\ call = NoCall
    /\ ret = NoRet
    /\ started = 0
    /\ opBase = [w |-> 0, r |-> 0]
    /\ write_buf = <<>>
    /\ flushed_up_to = 0
    /\ rx_line = <<>>
    /\ rx_count = 0
    /\ received = <<>>
    /\ nb \in CodecInputs

\* the function named by kind is applied to the input; out becomes v
Apply(kind, v) ==
    /\ nb.kind = kind
    /\ nb.out = NoRet
    /\ nb' = [nb EXCEPT !.out = v]
    /\ UNCHANGED <<state, uart, fw5, call, ret, started, opBase, received,
                   write_buf, flushed_up_to, rx_line, rx_count>>

Apply_unpack_return_frame ==
    /\ Apply("unpack_return_frame", unpack_return_frame(nb.command, nb.frame))
    /\ UNCHANGED panicked

Apply_validate ==
    /\ Apply("validate", validate(nb.frame))
    /\ UNCHANGED panicked

Apply_has_valid_checksum ==
    /\ Apply("has_valid_checksum", Res("Ok", <<has_valid_checksum(nb.frame)>>))
    /\ UNCHANGED panicked

\* the decoding a public operation does after its future has completed
Apply_decode ==
    /\ nb.kind = "decode"
    /\ IF decode_panics(nb.op, nb.frame)
       THEN /\ Apply("decode", Res("panic", NoVal))
            /\ panicked' = TRUE
       ELSE /\ Apply("decode", decode(nb.op, nb.frame))
            /\ UNCHANGED panicked

\* is_response, op_code and data of a frame
Apply_accessors ==
    /\ Apply("accessors", Res("Ok", [is_response |-> is_response(nb.frame),
                                     op_code |-> frame_op_code(nb.frame),
                                     data |-> data(nb.frame)]))
    /\ UNCHANGED panicked

\* the version test of upgrade_to_v5 on the version get_firmware_version returned
Apply_upgrade_to_v5 ==
    /\ Apply("upgrade_to_v5", upgrade_to_v5_result(Res("Ok", nb.fw)))
    /\ UNCHANGED panicked

Apply_from ==
    /\ Apply("from", Res("Ok", Frame_from(nb.command)))
    /\ UNCHANGED panicked

Apply_serialize ==
    /\ Apply("serialize", Res("Ok", serialize(nb.command)))
    /\ UNCHANGED panicked

Apply_checksum ==
    /\ Apply("checksum", Res("Ok", <<checksum(nb.buf)>>))
    /\ UNCHANGED panicked

NextCodec ==
    \/ Apply_unpack_return_frame
    \/ Apply_validate
    \/ Apply_has_valid_checksum
    \/ Apply_decode
    \/ Apply_accessors
    \/ Apply_upgrade_to_v5
    \/ Apply_from
    \/ Apply_serialize
    \/ Apply_checksum

SpecCodec == InitCodec /\ [][NextCodec]_vars

(* ------------------- mh_z19c.rs: the blocking driver ------------------- *)
\* Command::op_code of mh_z19c.rs
Blocking_op_code(command) ==
    CASE command.tag = "ReadCo2" -> 134
      [] command.tag = "SetSelfCalibrate" -> 121

\* Command::serialize_args
Blocking_serialize_args(command) ==
    IF command.tag = "SetSelfCalibrate" /\ command.enabled
    THEN <<160, 0, 0, 0, 0>>
    ELSE <<0, 0, 0, 0, 0>>

\* Command::serialize: the 6 bytes written to buf[2..8]
Blocking_serialize(command) ==
    <<Blocking_op_code(command)>> \o Blocking_serialize_args(command)

\* buf.iter().fold(0x00, |acc, &x| acc.overflowing_sub(x).0)
RECURSIVE Blocking_checksum_fold(_, _)
Blocking_checksum_fold(buf, acc) ==
    IF buf = <<>> THEN acc
    ELSE Blocking_checksum_fold(Tail(buf), (acc - Head(buf)) % 256)

Blocking_checksum(buf) == Blocking_checksum_fold(buf, 0)

\* MhZ19C::frame_command on a zeroed buffer
Blocking_frame_command(command) ==
    LET head == <<255, 1>> \o Blocking_serialize(command)
    IN  head \o <<Blocking_checksum(Slice(head, 1, 8))>>

\* unpack_return_frame looking at the opcode before the checksum
Blocking_unpack_return_frame_opcode_first(command, buf) ==
    IF buf[1] # 255 THEN Res("StartByteExpected", <<buf[1]>>)
    ELSE IF buf[2] # Blocking_op_code(command)
    THEN Res("OpCodeMismatch", <<Blocking_op_code(command), buf[2]>>)
    ELSE IF Blocking_checksum(Slice(buf, 1, 8)) # buf[9]
    THEN Res("InvalidChecksum", NoVal)
    ELSE Res("Ok", Slice(buf, 2, 8))

\* MhZ19C::unpack_return_frame of mh_z19c.rs
Blocking_unpack_return_frame(command, buf) ==
    IF buf[1] # 255 THEN Res("StartByteExpected", <<buf[1]>>)
    ELSE IF Blocking_checksum(Slice(buf, 1, 8)) # buf[9]
    THEN Res("InvalidChecksum", NoVal)
    ELSE IF buf[2] # Blocking_op_code(command)
    THEN Res("OpCodeMismatch", <<Blocking_op_code(command), buf[2]>>)
    ELSE Res("Ok", Slice(buf, 2, 8))

\* what write_blocking does: it succeeds or fails with an error of the Uart
BlockingWriteResults == {Ok} \cup {Other(e) : e \in Errs}

\* what read_blocking does: it fills the buffer with 9 bytes or fails
BlockingReadResults ==
    {Res("Ok", f) : f \in CodecFrames} \cup {Other(e) : e \in Errs}

\* one call of the blocking read_co2_ppm on a Uart that will answer the write
\* with write_res and the read with read_res. pc: where the call stands;
\* calls: the Uart methods called so far; written: the buffer handed to
\* write_blocking; out: what the call returned
BlockingInputs ==
    { [kind |-> "blocking", write_res |-> w, read_res |-> r, pc |-> "write",
       calls |-> <<>>, written |-> <<>>, buf |-> ZeroBuf, out |-> NoRet] :
        w \in BlockingWriteResults, r \in BlockingReadResults }

InitBlocking ==
    /\ state = Idle
    /\ uart = None
    /\ fw5 = FALSE
    /\ panicked = FALSE
    /\ call = NoCall
    /\ ret = NoRet
    /\ started = 0
    /\ opBase = [w |-> 0, r |-> 0]
    /\ write_buf = <<>>
    /\ flushed_up_to = 0
    /\ rx_line = <<>>
    /\ rx_count = 0
    /\ received = <<>>
    /\ nb \in BlockingInputs

\* frame_command and self.uart.write_blocking(&buf).map_err(Error::UartError)?
Blocking_write ==
    /\ nb.kind = "blocking"
    /\ nb.pc = "write"
    /\ nb' = [nb EXCEPT
                !.calls = Append(@, "write"),
                !.written = Blocking_frame_command(Cmd("ReadCo2", FALSE)),
                !.buf = Blocking_frame_command(Cmd("ReadCo2", FALSE)),
                !.pc = IF IsOk(nb.write_res) THEN "read" ELSE "done",
                !.out = IF IsOk(nb.write_res) THEN NoRet
                        ELSE Res("UartError", nb.write_res.val)]
    /\ UNCHANGED <<state, uart, fw5, panicked, call, ret, started, opBase,
                   received, uartVars>>

\* self.uart.read_blocking(&mut buf, 9).map_err(Error::UartError)?
Blocking_read ==
    /\ nb.kind = "blocking"
    /\ nb.pc = "read"
    /\ nb' = [nb EXCEPT
                !.calls = Append(@, "read"),
                !.buf = IF IsOk(nb.read_res) THEN nb.read_res.val ELSE @,
                !.pc = IF IsOk(nb.read_res) THEN "unpack" ELSE "done",
                !.out = IF IsOk(nb.read_res) THEN NoRet
                        ELSE Res("UartError", nb.read_res.val)]
    /\ UNCHANGED <<state, uart, fw5, panicked, call, ret, started, opBase,
                   received, uartVars>>

\* unpack_return_frame(Command::ReadCo2, &buf)? and
\* Ok(u16::from_be_bytes(data[..2]...))
Blocking_unpack ==
    /\ nb.kind = "blocking"
    /\ nb.pc = "unpack"
    /\ \E r \in {Blocking_unpack_return_frame(Cmd("ReadCo2", FALSE), nb.buf)} :
         nb' = [nb EXCEPT
                  !.pc = "done",
                  !.out = IF IsOk(r)
                          THEN Res("Ok", <<u16_from_be_bytes(Slice(r.val, 0, 2))>>)
                          ELSE r]
    /\ UNCHANGED <<state, uart, fw5, panicked, call, ret, started, opBase,
                   received, uartVars>>

NextBlocking ==
    \/ Blocking_write
    \/ Blocking_read
    \/ Blocking_unpack

SpecBlocking == InitBlocking /\ [][NextBlocking]_vars

(* ------------- a host that retries a call until it completes ----------- *)
\* every operation of the public interface
AllOps ==
    { Op("read_co2_ppm", FALSE), Op("get_firmware_version", FALSE),
      Op("set_self_calibrate", TRUE), Op("set_self_calibrate", FALSE),
      Op("upgrade_to_v5", FALSE), Op("read_co2_and_temp", FALSE) }

\* the transport either is not ready or succeeds; it never fails fatally
LiveOutcomes == {Ok, WouldBlock}

\* The host calls op: any operation while the driver is Idle, and the
\* operation of its last call again while that operation is in flight.
LiveCall(op) ==
    /\ state = Idle \/ call.op = op
    /\ state = Idle => started < MaxLiveOps
    /\ op.name = "read_co2_and_temp" => fw5
    /\ Enter(op)

\* the host calls again the operation that returned not-ready
Retry == state # Idle /\ LiveCall(call.op)

NextLive ==
    \/ \E op \in AllOps : LiveCall(op)
    \/ \E res \in LiveOutcomes : Write(res)
    \/ \E res \in LiveOutcomes : Flush(res)
    \/ ReadOk
    \/ ReadErr(WouldBlock)

\* the host goes on retrying, and the transport does not answer not-ready for
\* ever to the write, the flush or the read it is asked for
SpecLive ==
    /\ Init /\ [][NextLive]_vars
    /\ WF_vars(Retry)
    /\ SF_vars(Write(Ok))
    /\ SF_vars(Flush(Ok))
    /\ SF_vars(ReadOk)

(* ============================== claims ================================= *)
\* the transport held by the in-flight future of s
HeldBy(s) ==
    CASE s.kind = "Idle" -> None
      [] s.kind = "SetSelfCalibrate" -> Some(s.future.uart)
      [] s.future.state.tag \in {"Write", "Read"} -> Some(s.future.state.future.uart)
      [] OTHER -> Some(s.future.state.uart)

\* C1: between public calls the idle slot holds the transport if and only if
\* the state is Idle, a Busy state's future holds the transport, and taking the
\* transport out of the idle slot never finds it empty (no unwrap panics).
C1_ExclusiveOwnership ==
    /\ ~panicked
    /\ (~call.active /\ ~Consumed) =>
         /\ (uart = Some(U)) <=> (state.kind = "Idle")
         /\ (uart = None) <=> (state.kind # "Idle")
         /\ (uart \o HeldBy(state)) = <<U>>

\* a call for another operation finished a read-CO2, started set-self-calibrate
\* and returned with it in flight after a fatal error
C1_Witness ==
    /\ ~call.active
    /\ call.finished = "ReadCo2"
    /\ state.kind = "SetSelfCalibrate"
    /\ ret.tag = "UartError"
    /\ uart = None

\* the in-flight future is about to complete with its next ok transport step
Completing(s) ==
    \/ s.kind = "SetSelfCalibrate" /\ s.future.bytes_written = Len(s.future.buf) - 1
    \/ /\ s.kind \notin {"Idle", "SetSelfCalibrate"}
       /\ s.future.state.tag = "Read"
       /\ s.future.state.future.bytes_read = s.future.state.future.read_len - 1

\* C2: a call made while an operation K is in flight does not touch the state
\* on entry; every transport action of a call acts on the in-flight future at
\* its saved position; a future is created only from Idle or in the step that
\* completes the in-flight one.
C2_PollsInFlight ==
    [][ /\ (~call.active /\ call'.active /\ state.kind # "Idle")
            => (state' = state /\ uart' = uart /\ started' = started)
        /\ (call.active /\ write_buf' # write_buf)
            => /\ Pos(state).tag = "Write"
               /\ write_buf' = Append(write_buf,
                                      PolledWriteAll(state).buf[Pos(state).cursor + 1])
               /\ \/ Pos(state') = [Pos(state) EXCEPT !.cursor = @ + 1]
                  \/ Pos(state).cursor = 8
        /\ (call.active /\ rx_count' # rx_count)
            => /\ Pos(state).tag = "Read"
               /\ \/ Pos(state') = [Pos(state) EXCEPT !.cursor = @ + 1]
                  \/ Pos(state).cursor = 8
        /\ (call.active /\ flushed_up_to' # flushed_up_to)
            => Pos(state).tag = "Flush"
        /\ (started' # started)
            => /\ started' = started + 1
               /\ \/ state.kind = "Idle" /\ ~call.active
                  \/ call.active /\ Completing(state) /\ state.kind # OpKind(call.op)
      ]_vars

\* a set_self_calibrate call returned not-ready having polled the read-CO2 in
\* flight, which is in the middle of its read
C2_Witness ==
    /\ ~call.active
    /\ call.op.name = "set_self_calibrate"
    /\ ret.tag = "WouldBlock"
    /\ Pos(state) = [kind |-> "ReadCo2", tag |-> "Read", cursor |-> 4]

RequestFrames == {Frame_from(c) : c \in Commands}
ReadTypeFrames == {READ_CO2, GET_FIRMWARE_VERSION, READ_CO2_AND_TEMPERATURE}
NthFrame(i) == SubSeq(write_buf, 9 * (i - 1) + 1, 9 * i)
RECURSIVE ReadTypeAmong(_)
ReadTypeAmong(i) ==
    IF i = 0 THEN 0
    ELSE ReadTypeAmong(i - 1) + (IF NthFrame(i) \in ReadTypeFrames THEN 1 ELSE 0)

\* C3: the bytes accepted by the transport are whole request frames followed
\* by at most one proper prefix of a request frame, and a byte of a further
\* frame is written only after every earlier read-type request has been
\* flushed and has read its 9 response bytes.
C3_WholeFrames ==
    LET n == Len(write_buf) \div 9
        rest == Len(write_buf) % 9
    IN  /\ \A i \in 1..n : NthFrame(i) \in RequestFrames
        /\ rest > 0 =>
             \E f \in RequestFrames :
                SubSeq(write_buf, 9 * n + 1, Len(write_buf)) = SubSeq(f, 1, rest)
        /\ \A i \in 1..n :
             Len(write_buf) > 9 * i =>
                /\ rx_count >= 9 * ReadTypeAmong(i)
                /\ NthFrame(i) \in ReadTypeFrames => flushed_up_to >= 9 * i

\* read-CO2 was stalled, a set_self_calibrate call finished it and then wrote
\* its own frame
C3_Witness ==
    /\ call.op.name = "set_self_calibrate"
    /\ call.finished = "ReadCo2"
    /\ Len(write_buf) = 18
    /\ NthFrame(1) = READ_CO2
    /\ NthFrame(2) = Frame_from(Cmd("SetSelfCalibrate", TRUE))
    /\ rx_count = 9

\* the driver's cursor equals what the transport accepted and delivered since
\* the in-flight future was created
CursorAtTransport(s) ==
    LET p == Pos(s)
        w == Len(write_buf) - opBase.w
        r == rx_count - opBase.r
    IN  CASE p.tag = "Write" -> p.cursor = w /\ r = 0
          [] p.tag = "Flush" -> w = 9 /\ r = 0
          [] p.tag = "Read" -> w = 9 /\ p.cursor = r
          [] OTHER -> FALSE

\* C4 as stated: a call that completes an in-flight future of another kind
\* returns not-ready with the driver Idle and the requested operation not
\* started.
C4_ReportsNotReady ==
    call.finished # "none" =>
        /\ ~call.active
        /\ ret.tag = "WouldBlock"
        /\ state = Idle
        /\ uart = Some(U)

\* C4 amended: the step that completes an in-flight future of another kind K
\* recovers the transport and starts the requested operation O at byte 0 in the
\* same call, which goes on polling O; such a call returns not-ready or a
\* transport error with the driver Busy(O), or O's outcome with the driver Idle.
C4_StartsRequested ==
    [][ /\ (call.active /\ call.finished = "none" /\ call'.finished # "none")
            => /\ call'.finished = state.kind
               /\ state.kind # OpKind(call.op)
               /\ Completing(state)
               /\ call'.active
               /\ Pos(state') = [kind |-> OpKind(call.op), tag |-> "Write", cursor |-> 0]
               /\ PolledWriteAll(state').buf \in RequestFrames
               /\ uart' = None
               /\ started' = started + 1
               /\ Len(write_buf') = opBase'.w
        /\ (call.active /\ Completing(state) /\ state.kind # OpKind(call.op)
              /\ (write_buf' # write_buf \/ rx_count' # rx_count))
            => call'.finished = state.kind
        /\ (call.active /\ ~call'.active /\ call'.finished # "none")
            => \/ /\ ret'.tag \in {"WouldBlock", "UartError"}
                  /\ state'.kind = OpKind(call.op)
                  /\ uart' = None
               \/ /\ ret'.tag \notin {"WouldBlock", "UartError", "none"}
                  /\ state' = Idle
                  /\ uart' = Some(U)
      ]_vars

\* a set_self_calibrate call completed the read-CO2 in flight and then its own
\* operation
C4_Witness ==
    /\ ~call.active
    /\ call.op.name = "set_self_calibrate"
    /\ call.finished = "ReadCo2"
    /\ ret = Ok
    /\ state = Idle

\* C5: a call that returns not-ready leaves the driver Busy with the state the
\* not-ready transport invocation found, the transport not in the idle slot,
\* and the cursor equal to what the transport accepted or delivered so far.
C5_NotReadyKeepsState ==
    [][ (call.active /\ ~call'.active /\ ret'.tag = "WouldBlock")
            => /\ state' = state
               /\ state.kind # "Idle"
               /\ uart' = None
               /\ write_buf' = write_buf
               /\ rx_count' = rx_count
               /\ opBase' = opBase
               /\ CursorAtTransport(state)
      ]_vars

\* a call returned not-ready with three response bytes read
C5_Witness ==
    /\ ~call.active
    /\ ret.tag = "WouldBlock"
    /\ Pos(state).tag = "Read"
    /\ Pos(state).cursor = 3
    /\ rx_count - opBase.r = 3

\* C6: a call that returns a transport error leaves the driver Idle, owning
\* the transport.
C6_RecoversOnFatal ==
    (~call.active /\ ret.tag = "UartError") => (state = Idle /\ uart = Some(U))

ProtocolErrors == {"InvalidStartByte", "InvalidChecksum", "NotAResponse", "OpCodeMismatch"}

\* C7: a call returns a protocol error in the step that completes its own
\* operation, with the driver Idle and owning the transport and without a
\* further transport action (one request written, 9 bytes read); the next call
\* starts a fresh operation at byte 0 of its request frame.
C7_ProtocolErrorIdle ==
    [][ /\ (call.active /\ ~call'.active /\ ret'.tag \in ProtocolErrors)
            => /\ state' = Idle
               /\ uart' = Some(U)
               /\ state.kind = OpKind(call.op)
               /\ Completing(state)
               /\ write_buf' = write_buf
               /\ Len(write_buf') - opBase.w = 9
               /\ rx_count' - opBase.r = 9
        /\ (~call.active /\ ret.tag \in ProtocolErrors /\ call'.active)
            => /\ Pos(state') = [kind |-> OpKind(call'.op), tag |-> "Write", cursor |-> 0]
               /\ PolledWriteAll(state').buf \in RequestFrames
               /\ write_buf' = write_buf
               /\ uart' = None
      ]_vars

\* a call returned InvalidChecksum and left the driver Idle
C7_Witness ==
    /\ ~call.active
    /\ ret.tag = "InvalidChecksum"
    /\ state = Idle
    /\ uart = Some(U)
    /\ Len(write_buf) = 9
    /\ rx_count = 9

\* the frame the completing read hands to the decoder
ReceivedFrame(s) == [PolledReadMultiple(s).buf EXCEPT ![9] = rx_line[1]]

\* the typed value of each operation, from the wire format
TypedValue(op, frame) ==
    CASE op.name = "read_co2_ppm" -> <<frame[3] * 256 + frame[4]>>
      [] op.name = "get_firmware_version" -> <<frame[3], frame[4], frame[5], frame[6]>>
      [] op.name = "read_co2_and_temp" ->
           [co2_ppm |-> frame[5] * 256 + frame[6],
            temp_raw |-> frame[3] * 256 + frame[4], temp_div |-> 100]
      [] op.name = "upgrade_to_v5" -> <<"MhZ19CFw5">>
      [] op.name = "set_self_calibrate" -> NoVal

\* C8: the step that completes an in-flight future of the kind of the current
\* call ends the call with the driver Idle and owning the transport and with
\* the operation's typed result or a tagged error; a call returns success only
\* in such a step, with the value decoded from the received frame.
C8_TypedResult ==
    [][ /\ (call.active /\ Completing(state) /\ state.kind = OpKind(call.op)
              /\ (write_buf' # write_buf \/ rx_count' # rx_count))
            => /\ ~call'.active
               /\ state' = Idle
               /\ uart' = Some(U)
               /\ ret'.tag \in {"Ok", "NotSupportedByFirmware"} \cup ProtocolErrors
        /\ (call.active /\ ~call'.active /\ ret'.tag = "Ok")
            => /\ Completing(state)
               /\ state.kind = OpKind(call.op)
               /\ state' = Idle
               /\ uart' = Some(U)
               /\ ret'.val = TypedValue(call.op,
                                IF call.op.name = "set_self_calibrate" THEN <<>>
                                ELSE ReceivedFrame(state))
      ]_vars

\* read_co2_ppm returned 800
C8_Witness ==
    /\ ~call.active
    /\ call.op.name = "read_co2_ppm"
    /\ ret = Res("Ok", <<800>>)
    /\ state = Idle
    /\ uart = Some(U)

\* C9: the bytes the transport accepted are the first bytes_written bytes of
\* the buffer, whatever ok and not-ready results were interleaved, and the
\* future has completed exactly when the whole buffer was accepted.
C9_WriteAllExact ==
    nb.kind = "WriteAll" =>
        /\ ~panicked
        /\ nb.future.bytes_written = Len(write_buf)
        /\ nb.future.bytes_written <= Len(nb.future.buf)
        /\ write_buf = SubSeq(nb.future.buf, 1, nb.future.bytes_written)
        /\ IsOk(nb.ret) <=> write_buf = nb.future.buf

\* a three-byte buffer was written completely by a future that was suspended
C9_Witness ==
    /\ nb.kind = "WriteAll"
    /\ nb.stalled
    /\ IsOk(nb.ret)
    /\ Len(write_buf) = 3
    /\ write_buf = nb.future.buf

\* C10: the i-th byte delivered is stored at position i, stored bytes are
\* kept, the rest of the buffer is untouched, completion is reported exactly
\* when read_len bytes are stored, and no more than read_len bytes are read.
C10_ReadExact ==
    nb.kind = "ReadMultiple" =>
        LET f == nb.future IN
        /\ ~panicked
        /\ f.bytes_read = Len(nb.delivered)
        /\ rx_count = Len(nb.delivered)
        /\ Len(nb.delivered) <= f.read_len
        /\ \A i \in 1..Len(f.buf) :
             f.buf[i] = IF i <= Len(nb.delivered) THEN nb.delivered[i] ELSE 0
        /\ IsOk(nb.ret) <=> f.bytes_read = f.read_len

\* three bytes were read by a future that was suspended
C10_Witness ==
    /\ nb.kind = "ReadMultiple"
    /\ nb.stalled
    /\ IsOk(nb.ret)
    /\ nb.future.read_len = 3
    /\ nb.delivered = <<7, 9, 7>>
    /\ nb.future.buf = <<7, 9, 7>>

\* C11: within one write-and-read operation the transport sees writes, then
\* flushes, then reads: a flush is invoked only when all 9 request bytes have
\* been accepted and nothing has been read; a read is invoked only when a flush
\* that returned ok covers the last byte written; a flush that does not return
\* ok leaves the operation where it is and ends the call, so that the next
\* transport invocation is the flush again; no byte is written once the
\* operation has flushed or read.
C11_WriteFlushRead ==
    [][ /\ (call.active /\ NextIo(state) = "flush")
            => /\ Len(write_buf) - opBase.w = 9
               /\ rx_count = opBase.r
               /\ flushed_up_to < Len(write_buf)
               /\ write_buf' = write_buf
               /\ rx_count' = rx_count
               /\ flushed_up_to' \in {flushed_up_to, Len(write_buf)}
        /\ (call.active /\ NextIo(state) = "flush" /\ flushed_up_to' = flushed_up_to)
            => /\ state' = state
               /\ ~call'.active
               /\ ret'.tag \in {"WouldBlock", "UartError"}
        /\ (flushed_up_to' # flushed_up_to)
            => (call.active /\ NextIo(state) = "flush")
        /\ (call.active /\ NextIo(state) = "read")
            => /\ Len(write_buf) - opBase.w = 9
               /\ flushed_up_to = Len(write_buf)
               /\ write_buf' = write_buf
        /\ (rx_count' # rx_count)
            => /\ call.active /\ NextIo(state) = "read"
               /\ flushed_up_to = Len(write_buf)
        /\ (write_buf' # write_buf)
            => /\ flushed_up_to <= opBase.w
               /\ rx_count = opBase.r
      ]_vars

\* the flush of the second operation was answered not-ready: its request is
\* written, the flush mark is still that of the first operation, nothing of the
\* second response has been read
C11_Witness ==
    /\ ~call.active
    /\ ret.tag = "WouldBlock"
    /\ Pos(state).tag = "Flush"
    /\ Len(write_buf) = 18
    /\ flushed_up_to = 9
    /\ rx_count = 9

\* how far a call has come: 19 once the future in flight is of the call's own
\* kind, plus the transport invocations that future has had answered ok
CallProgress(c, s) ==
    LET p == Pos(s) IN
    (IF s.kind = OpKind(c.op) THEN 19 ELSE 0)
    + (CASE p.tag = "Write" -> p.cursor
         [] p.tag = "Flush" -> 9
         [] p.tag = "Read" -> 10 + p.cursor
         [] OTHER -> 0)

\* C13: a transport invocation that is not answered ok (it accepts, flushes and
\* delivers nothing) ends the call at once with not-ready or the transport
\* error; every other step of a call moves it forward on a scale of 38 steps,
\* so a call makes at most 38 transport invocations; a call goes round its loop
\* at most twice: it finishes at most one foreign operation and starts at most
\* one operation, and once the operation in flight is its own it neither
\* finishes a foreign one nor starts another.
C13_ReturnsWithoutWaiting ==
    [][ /\ (call.active /\ write_buf' = write_buf /\ rx_count' = rx_count
              /\ flushed_up_to' = flushed_up_to)
            => /\ ~call'.active
               /\ ret'.tag \in {"WouldBlock", "UartError"}
               /\ state' = state
        /\ (call.active /\ call'.active)
            => /\ CallProgress(call', state') > CallProgress(call, state)
               /\ CallProgress(call', state') <= 37
               /\ call'.op = call.op
        /\ (call.active /\ call.finished # "none")
            => (call'.finished = call.finished /\ started' = started)
        /\ (call.active /\ state.kind = OpKind(call.op))
            => (call'.finished = call.finished /\ started' = started)
        /\ (call.active /\ started' # started)
            => /\ started' = started + 1
               /\ call.finished = "none"
               /\ call'.finished = state.kind
        /\ (~call.active /\ call'.active)
            => /\ call'.finished = "none"
               /\ state'.kind # "Idle"
               /\ started' \in {started, started + 1}
               /\ started' # started => state'.kind = OpKind(call'.op)
      ]_vars

\* a get_firmware_version call finished the set-self-calibrate in flight,
\* started its own operation, wrote its request and returned at the not-ready
\* flush
C13_Witness ==
    /\ ~call.active
    /\ call.op.name = "get_firmware_version"
    /\ call.finished = "SetSelfCalibrate"
    /\ ret.tag = "WouldBlock"
    /\ Pos(state) = [kind |-> "GetFirmwareVersion", tag |-> "Flush", cursor |-> 0]
    /\ Len(write_buf) = 18

\* the frame that enables self-calibration, as it goes over the wire
CALIBRATE_ON_WIRE == <<255, 1, 121, 160, 0, 0, 0, 0, 230>>

\* C20: a set_self_calibrate(true) that finds the driver Idle creates a write
\* of the 9 bytes FF 01 79 A0 00 00 00 00 E6; the buffer of a write in flight
\* never changes; and when that write completes, whatever not-ready results
\* were interleaved, the transport has accepted since its creation exactly
\* those 9 bytes in order, has flushed nothing and delivered nothing.
C20_CalibrateOnBytes ==
    [][ /\ (~call.active /\ call'.active /\ state = Idle
              /\ call'.op = Op("set_self_calibrate", TRUE))
            => /\ state'.kind = "SetSelfCalibrate"
               /\ state'.future.buf = CALIBRATE_ON_WIRE
               /\ state'.future.bytes_written = 0
               /\ opBase'.w = Len(write_buf)
               /\ write_buf' = write_buf
        /\ (state.kind = "SetSelfCalibrate" /\ state'.kind = "SetSelfCalibrate")
            => /\ state'.future.buf = state.future.buf
               /\ opBase' = opBase
        /\ (state.kind = "SetSelfCalibrate" /\ state.future.buf = CALIBRATE_ON_WIRE
              /\ state'.kind # "SetSelfCalibrate" /\ ~Consumed')
            => /\ SubSeq(write_buf', opBase.w + 1, Len(write_buf')) = CALIBRATE_ON_WIRE
               /\ rx_count' = opBase.r
               /\ flushed_up_to' = flushed_up_to
               /\ flushed_up_to <= opBase.w
               /\ call.op.name = "set_self_calibrate" => (ret' = Ok /\ state' = Idle)
      ]_vars

\* set_self_calibrate(true) on a fresh driver returned success and the
\* transport holds the 9 bytes
C20_Witness ==
    /\ ~call.active
    /\ call.op = Op("set_self_calibrate", TRUE)
    /\ ret = Ok
    /\ state = Idle
    /\ write_buf = CALIBRATE_ON_WIRE
    /\ flushed_up_to = 0
    /\ rx_count = 0

\* the request frame of an operation kind
RequestOf(s) == PolledWriteAll(new_state(U, Op(
    CASE s.kind = "ReadCo2" -> "read_co2_ppm"
      [] s.kind = "GetFirmwareVersion" -> "get_firmware_version"
      [] s.kind = "ReadCo2AndTemperature" -> "read_co2_and_temp"
      [] OTHER -> "set_self_calibrate", FALSE))).buf

\* what C12 requires of every step
C12_OnceInOrder ==
    /\ (state.kind # "Idle" /\ state'.kind = state.kind /\ opBase' = opBase)
         => /\ CallProgress(call', state') >= CallProgress(call, state)
            /\ CursorAtTransport(state)'
    /\ (write_buf' # write_buf)
         => /\ Pos(state).tag = "Write"
            /\ Pos(state).cursor = Len(write_buf) - opBase.w
            /\ write_buf' = Append(write_buf,
                                   PolledWriteAll(state).buf[Pos(state).cursor + 1])
    /\ (rx_count' # rx_count)
         => /\ Pos(state).tag = "Read"
            /\ Pos(state).cursor = rx_count - opBase.r
            /\ rx_count' = rx_count + 1
    /\ (state.kind # "Idle" /\ state' = Idle)
         => /\ ~call'.active
            /\ ret'.tag \in {"Ok", "NotSupportedByFirmware"} \cup ProtocolErrors
            /\ Len(write_buf') - opBase.w = 9
            /\ IF state.kind # "SetSelfCalibrate"
               THEN /\ SubSeq(write_buf', opBase.w + 1, Len(write_buf'))
                         = RequestOf(state)
                    /\ rx_count' - opBase.r = 9
                    /\ flushed_up_to' = Len(write_buf')
               ELSE /\ SubSeq(write_buf', opBase.w + 1, Len(write_buf'))
                         = state.future.buf
                    /\ rx_count' = opBase.r

\* C12: with a host that retries and a transport that is not ready only
\* finitely often and never fails, an operation in flight leads to a call that
\* returns its completed result (a value or a protocol error) with the driver
\* Idle; while it is in flight its position never moves back, every byte
\* accepted is the byte at the cursor and moves the cursor by one; and when it
\* completes the transport has accepted since its start exactly the 9 bytes
\* of its request and delivered exactly the 9 bytes of the response (none for
\* set-self-calibrate).
C12_EventuallyCompletes ==
    /\ [][C12_OnceInOrder]_vars
    /\ (state.kind # "Idle")
          ~> (/\ ~call.active
              /\ state = Idle
              /\ uart = Some(U)
              /\ ret.tag \in {"Ok", "NotSupportedByFirmware"} \cup ProtocolErrors)

\* get_firmware_version, retried, returned the version the sensor sent, having
\* written its 9 request bytes and read 9 response bytes
C12_Witness ==
    /\ ~call.active
    /\ call.op.name = "get_firmware_version"
    /\ ret = Res("Ok", <<48, 53, 49, 53>>)
    /\ state = Idle
    /\ write_buf = GET_FIRMWARE_VERSION
    /\ flushed_up_to = 9
    /\ rx_count = 9

RECURSIVE ByteSum(_)
ByteSum(buf) == IF buf = <<>> THEN 0 ELSE Head(buf) + ByteSum(Tail(buf))

\* the checksum the protocol defines for bytes 1..7 of a frame
WireChecksum(frame) == (0 - ByteSum(SubSeq(frame, 2, 8))) % 256

\* the opcode table of the protocol
WireOpcode(command) ==
    CASE command.tag = "ReadCo2AndTemperature" -> 133
      [] command.tag = "ReadCo2" -> 134
      [] command.tag = "GetFirmwareVersion" -> 160
      [] command.tag = "SetSelfCalibrate" -> 121

\* C14: decoding a received frame for an issued command reports the first
\* check that fails, in the order start byte, checksum, response marker,
\* opcode, each with its own tag and values, and returns bytes 2..7 of the
\* frame only when all four checks pass.
C14_DecodeOrder ==
    (nb.kind = "unpack_return_frame" /\ nb.out # NoRet) =>
        LET f == nb.frame
            opc == WireOpcode(nb.command)
        IN  nb.out =
              IF f[1] # 255 THEN Res("InvalidStartByte", <<f[1]>>)
              ELSE IF f[9] # WireChecksum(f)
              THEN Res("InvalidChecksum", <<WireChecksum(f), f[9]>>)
              ELSE IF f[2] = 1 THEN Res("NotAResponse", NoVal)
              ELSE IF f[2] # opc THEN Res("OpCodeMismatch", <<opc, f[2]>>)
              ELSE Res("Ok", SubSeq(f, 3, 8))

\* a well-formed response to another command was decoded for read-CO2
C14_Witness ==
    /\ nb.kind = "unpack_return_frame"
    /\ nb.command = Cmd("ReadCo2", FALSE)
    /\ nb.frame[1] = 255
    /\ nb.frame[9] = WireChecksum(nb.frame)
    /\ nb.out = Res("OpCodeMismatch", <<134, 133>>)

\* C15: for every 9-byte response the decoding of read_co2_ppm,
\* get_firmware_version and read_co2_and_temp does not panic, always yields a
\* result, and the result is either the operation's typed value or a tagged
\* protocol error.
C15_DecodeTotal ==
    /\ nb.kind \in {"decode", "unpack_return_frame", "validate"} => ~panicked
    /\ (nb.kind = "decode" /\ nb.out = NoRet) => ENABLED Apply_decode
    /\ (nb.kind = "decode" /\ nb.out # NoRet) =>
          /\ nb.out.tag \in {"Ok"} \cup ProtocolErrors
          /\ nb.out.tag = "Ok" =>
                CASE nb.op.name = "read_co2_ppm" ->
                       /\ Len(nb.out.val) = 1
                       /\ nb.out.val[1] \in 0..65535
                  [] nb.op.name = "get_firmware_version" ->
                       /\ Len(nb.out.val) = 4
                       /\ \A i \in 1..4 : nb.out.val[i] \in 0..255
                  [] nb.op.name = "read_co2_and_temp" ->
                       /\ nb.out.val.co2_ppm \in 0..65535
                       /\ nb.out.val.temp_raw \in 0..65535
                       /\ nb.out.val.temp_div = 100

\* read_co2_and_temp decoded a response whose data bytes are all 0xFF or 0x03
C15_Witness ==
    /\ nb.kind = "decode"
    /\ nb.op.name = "read_co2_and_temp"
    /\ nb.out = Res("Ok", [co2_ppm |-> 3 * 256 + 255, temp_raw |-> 65535,
                           temp_div |-> 100])

\* C16: validate reports an invalid start byte whenever byte 0 is not 0xFF,
\* also when the checksum is wrong as well; otherwise a checksum that differs
\* from the one computed over bytes 1..7, with both values; otherwise ok; the
\* result depends on byte 1 only through the checksum.
C16_ValidateOrder ==
    (nb.kind = "validate" /\ nb.out # NoRet) =>
        LET f == nb.frame IN
        nb.out = IF f[1] # 255 THEN Res("InvalidStartByte", <<f[1]>>)
                 ELSE IF f[9] # WireChecksum(f)
                 THEN Res("InvalidChecksum", <<WireChecksum(f), f[9]>>)
                 ELSE Res("Ok", NoVal)

\* a frame with a wrong start byte and a wrong checksum was validated
C16_Witness ==
    /\ nb.kind = "validate"
    /\ nb.frame[1] = 0
    /\ nb.frame[9] # WireChecksum(nb.frame)
    /\ nb.out = Res("InvalidStartByte", <<0>>)

\* C17: the frame built from a command passes validate, is not a response,
\* and decodes to the command's opcode and to the five argument bytes that
\* serialize produced.
C17_CommandRoundTrip ==
    (nb.kind = "from" /\ nb.out # NoRet) =>
        LET f == nb.out.val IN
        /\ Len(f) = 9
        /\ validate(f) = Res("Ok", NoVal)
        /\ ~is_response(f)
        /\ frame_op_code(f) = op_code(nb.command)
        /\ frame_op_code(f) = WireOpcode(nb.command)
        /\ data(f) = Slice(serialize(nb.command), 1, 6)
        /\ Len(data(f)) = 5

\* the frame of set-self-calibrate(true) was built
C17_Witness ==
    /\ nb.kind = "from"
    /\ nb.command = Cmd("SetSelfCalibrate", TRUE)
    /\ nb.out = Res("Ok", <<255, 1, 121, 160, 0, 0, 0, 0, 230>>)

\* C18: the checksum of a byte sequence is the negated sum of its bytes
\* modulo 256; the checksum of 01 86 00 00 00 00 00 is 0x79; a 9-byte frame has
\* a valid checksum exactly when bytes 1..8 add up to 0 modulo 256.
C18_ChecksumNegatedSum ==
    /\ (nb.kind = "checksum" /\ nb.out # NoRet) =>
          /\ nb.out.val[1] = (0 - ByteSum(nb.buf)) % 256
          /\ nb.out.val[1] \in 0..255
          /\ nb.buf = <<1, 134, 0, 0, 0, 0, 0>> => nb.out.val[1] = 121
    /\ (nb.kind = "has_valid_checksum" /\ nb.out # NoRet) =>
          (nb.out.val[1] <=> (ByteSum(SubSeq(nb.frame, 2, 9)) % 256 = 0))

\* the checksum of a sequence whose sum exceeds 255 was taken
C18_Witness ==
    /\ nb.kind = "checksum"
    /\ nb.buf = <<255, 134, 255>>
    /\ nb.out = Res("Ok", <<124>>)

\* C19: every command serializes to 6 bytes, its opcode from the table first;
\* the first argument byte is 0xA0 for set-self-calibrate(true) only, and
\* every other argument byte is 0.
C19_SerializeTable ==
    (nb.kind = "serialize" /\ nb.out # NoRet) =>
        LET b == nb.out.val IN
        /\ nb.out.tag = "Ok"
        /\ Len(b) = 6
        /\ b[1] = WireOpcode(nb.command)
        /\ b[2] = IF nb.command = Cmd("SetSelfCalibrate", TRUE) THEN 160 ELSE 0
        /\ \A i \in 3..6 : b[i] = 0

\* set-self-calibrate(false) was serialized
C19_Witness ==
    /\ nb.kind = "serialize"
    /\ nb.command = Cmd("SetSelfCalibrate", FALSE)
    /\ nb.out = Res("Ok", <<121, 0, 0, 0, 0, 0>>)

\* the read-CO2 and get-firmware-version requests as they go over the wire
READ_CO2_WIRE == <<255, 1, 134, 0, 0, 0, 0, 0, 121>>
GET_FIRMWARE_VERSION_WIRE == <<255, 1, 160, 0, 0, 0, 0, 0, 95>>

\* a call of operation name finds the driver Idle
StartsFromIdle(name) == ~call.active /\ call'.active /\ state = Idle /\ call'.op.name = name

\* a call of operation name returns success
ReturnsOk(name) ==
    call.active /\ ~call'.active /\ call.op.name = name /\ ret'.tag = "Ok"

\* C21: a read_co2_ppm that finds the driver Idle creates a write of
\* FF 01 86 00 00 00 00 00 79 at byte 0, which stays the buffer being written;
\* when read_co2_ppm returns success the transport has accepted since the
\* operation's start exactly these 9 bytes and delivered 9, and the value
\* returned is byte 2 * 256 + byte 3 of the frame received; the response
\* FF 86 03 20 12 34 56 78 43 yields 800.
C21_ReadCo2 ==
    [][ /\ StartsFromIdle("read_co2_ppm")
            => /\ Pos(state') = [kind |-> "ReadCo2", tag |-> "Write", cursor |-> 0]
               /\ PolledWriteAll(state').buf = READ_CO2_WIRE
               /\ opBase'.w = Len(write_buf)
               /\ write_buf' = write_buf
        /\ (state.kind = "ReadCo2" /\ Pos(state).tag = "Write"
              /\ state'.kind = "ReadCo2" /\ Pos(state').tag = "Write")
            => PolledWriteAll(state').buf = PolledWriteAll(state).buf
        /\ ReturnsOk("read_co2_ppm")
            => /\ state.kind = "ReadCo2"
               /\ SubSeq(write_buf', opBase.w + 1, Len(write_buf')) = READ_CO2_WIRE
               /\ rx_count' - opBase.r = 9
               /\ ret'.val = <<ReceivedFrame(state)[3] * 256 + ReceivedFrame(state)[4]>>
               /\ ReceivedFrame(state) = <<255, 134, 3, 32, 18, 52, 86, 120, 67>>
                    => ret'.val = <<800>>
      ]_vars

\* read_co2_ppm on a fresh driver returned 800 with its request written,
\* flushed and answered
C21_Witness ==
    /\ ~call.active
    /\ call.op.name = "read_co2_ppm"
    /\ call.finished = "none"
    /\ ret = Res("Ok", <<800>>)
    /\ write_buf = READ_CO2_WIRE
    /\ flushed_up_to = 9
    /\ rx_count = 9

\* C22: a get_firmware_version that finds the driver Idle creates a write of
\* the get-firmware-version request (opcode A0) at byte 0, which stays the
\* buffer being written; when get_firmware_version returns success the
\* transport has accepted since the operation's start exactly these 9 bytes
\* and delivered 9, and the value returned is bytes 2..5 of the frame
\* received, in order.
C22_GetFirmwareVersion ==
    [][ /\ StartsFromIdle("get_firmware_version")
            => /\ Pos(state') = [kind |-> "GetFirmwareVersion", tag |-> "Write",
                                 cursor |-> 0]
               /\ PolledWriteAll(state').buf = GET_FIRMWARE_VERSION_WIRE
               /\ opBase'.w = Len(write_buf)
               /\ write_buf' = write_buf
        /\ (state.kind = "GetFirmwareVersion" /\ Pos(state).tag = "Write"
              /\ state'.kind = "GetFirmwareVersion" /\ Pos(state').tag = "Write")
            => PolledWriteAll(state').buf = PolledWriteAll(state).buf
        /\ ReturnsOk("get_firmware_version")
            => /\ state.kind = "GetFirmwareVersion"
               /\ SubSeq(write_buf', opBase.w + 1, Len(write_buf'))
                    = GET_FIRMWARE_VERSION_WIRE
               /\ rx_count' - opBase.r = 9
               /\ ret'.val = SubSeq(ReceivedFrame(state), 3, 6)
      ]_vars

\* get_firmware_version on a fresh driver returned "0400"
C22_Witness ==
    /\ ~call.active
    /\ call.op.name = "get_firmware_version"
    /\ call.finished = "none"
    /\ ret = Res("Ok", <<48, 52, 48, 48>>)
    /\ write_buf = GET_FIRMWARE_VERSION_WIRE
    /\ rx_count = 9

\* frame is a well-formed response carrying opcode opc
WellFormedResponse(frame, opc) ==
    frame[1] = 255 /\ frame[9] = WireChecksum(frame) /\ frame[2] = opc

\* an upgrade_to_v5 call returns
UpgradeReturns == call.active /\ ~call'.active /\ call.op.name = "upgrade_to_v5"

\* what C23 requires of every step
C23_Steps ==
    /\ (UpgradeReturns /\ state' = Idle /\ WellFormedResponse(ReceivedFrame(state), 160))
         => LET version == SubSeq(ReceivedFrame(state), 3, 6) IN
            /\ \/ ret' = Res("Ok", <<"MhZ19CFw5">>) /\ fw5'
               \/ ret' = Res("NotSupportedByFirmware", version) /\ fw5' = fw5
            /\ version = <<48, 52, 48, 48>>
                 => ret' = Res("NotSupportedByFirmware", <<48, 52, 48, 48>>)
            /\ version = <<48, 53, 49, 53>>
                 => (ret' = Res("Ok", <<"MhZ19CFw5">>) /\ fw5')
    /\ (UpgradeReturns /\ state' = Idle /\ ~WellFormedResponse(ReceivedFrame(state), 160))
         => (ret'.tag \in ProtocolErrors /\ fw5' = fw5)
    /\ (UpgradeReturns /\ state' # Idle)
         => /\ ret'.tag \in {"WouldBlock", "UartError"}
            /\ state' = state \/ state'.kind = "GetFirmwareVersion"
            /\ fw5' = fw5
    /\ (UpgradeReturns /\ write_buf' = write_buf /\ rx_count' = rx_count
          /\ flushed_up_to' = flushed_up_to /\ ret'.tag # "UartError")
         => (ret' = WouldBlock /\ fw5' = fw5)
    /\ (fw5' # fw5)
         => (UpgradeReturns /\ ret'.tag = "Ok" /\ state.kind = "GetFirmwareVersion")

\* C23: when the get_firmware_version inside upgrade_to_v5 completes with a
\* well-formed response, upgrade_to_v5 returns either the extended handle or
\* NotSupportedByFirmware carrying all four version bytes: "0400" is refused
\* with NotSupportedByFirmware("0400"), "0515" is accepted; while the firmware
\* request is not complete upgrade_to_v5 returns not-ready (or the transport
\* error) and hands out nothing; and once the handle exists read_co2_and_temp
\* can be called.
C23_Upgrade ==
    /\ [][C23_Steps]_vars
    /\ []((fw5 /\ ~call.active /\ ~panicked /\ ~Consumed /\ started < MaxOps)
            => ENABLED read_co2_and_temp)

\* upgrade_to_v5 was refused by a sensor reporting version "0400"
C23_Witness ==
    /\ ~call.active
    /\ call.op.name = "upgrade_to_v5"
    /\ ret = Res("NotSupportedByFirmware", <<48, 52, 48, 48>>)
    /\ state = Idle
    /\ ~fw5

\* C25: a read-CO2-and-temperature operation is in flight, is created, and a
\* request with opcode 85 reaches the transport only when an upgrade_to_v5 has
\* returned the handle before; the handle appears only in the step in which
\* upgrade_to_v5 returns success; and a read_co2_and_temp call starts no other
\* operation than read-CO2-and-temperature, in particular no firmware request.
C25_CapabilityGate ==
    /\ [](state.kind = "ReadCo2AndTemperature" => fw5)
    /\ [](\A i \in 1..Len(write_buf) : (i % 9 = 3 /\ write_buf[i] = 133) => fw5)
    /\ [](fw5 => \E i \in 1..(Len(write_buf) \div 9) :
                    NthFrame(i) = GET_FIRMWARE_VERSION_WIRE)
    /\ [][ /\ (state'.kind = "ReadCo2AndTemperature" /\ state.kind # state'.kind)
                => (fw5 /\ call'.op.name = "read_co2_and_temp" /\ started' = started + 1)
           /\ (fw5' /\ ~fw5)
                => (call.active /\ ~call'.active /\ call.op.name = "upgrade_to_v5"
                    /\ ret' = Res("Ok", <<"MhZ19CFw5">>))
           /\ (~fw5' => ~fw5)
           /\ (started' # started /\ call'.op.name = "read_co2_and_temp")
                => /\ state'.kind = "ReadCo2AndTemperature"
                   /\ PolledWriteAll(state').buf[3] = 133
       ]_vars

\* after a successful upgrade read_co2_and_temp returned 800 ppm at 24.00
\* degrees, two requests having been written
C25_Witness ==
    /\ ~call.active
    /\ fw5
    /\ call.op.name = "read_co2_and_temp"
    /\ ret = Res("Ok", [co2_ppm |-> 800, temp_raw |-> 2400, temp_div |-> 100])
    /\ NthFrame(1) = GET_FIRMWARE_VERSION_WIRE
    /\ Len(write_buf) = 18
    /\ NthFrame(2)[3] = 133

\* C24 as stated: the upgrade succeeds exactly when the character at index 0
\* of the version is '5' or greater.
C24_FirstDigit ==
    (nb.kind = "upgrade_to_v5" /\ nb.out # NoRet) =>
        (nb.out.tag = "Ok" <=> nb.fw[1] >= 53)

\* C24 amended: the version test looks at the character at index 1 only: the
\* upgrade succeeds exactly when that character is '5' or greater, whatever the
\* other three characters are, and otherwise is refused with the version.
C24_SecondDigit ==
    (nb.kind = "upgrade_to_v5" /\ nb.out # NoRet) =>
        nb.out = IF nb.fw[2] >= 53 THEN Res("Ok", <<"MhZ19CFw5">>)
                 ELSE Res("NotSupportedByFirmware", nb.fw)

\* version "0515", whose first character is '0', was accepted
C24_Witness ==
    /\ nb.kind = "upgrade_to_v5"
    /\ nb.fw = <<48, 53, 49, 53>>
    /\ nb.out = Res("Ok", <<"MhZ19CFw5">>)

\* C26: read_co2_and_temp succeeds exactly on a well-formed response with
\* opcode 85 and then returns the temperature field byte 2 * 256 + byte 3, to
\* be divided by 100, and the CO2 field byte 4 * 256 + byte 5, unchanged.
C26_TwoFields ==
    (nb.kind = "decode" /\ nb.op.name = "read_co2_and_temp" /\ nb.out # NoRet) =>
        LET f == nb.frame IN
        /\ nb.out.tag = "Ok" <=> WellFormedResponse(f, 133)
        /\ nb.out.tag = "Ok" =>
              nb.out.val = [temp_raw |-> f[3] * 256 + f[4], temp_div |-> 100,
                            co2_ppm |-> f[5] * 256 + f[6]]

\* the response FF 85 09 60 03 20 00 00 EF was decoded to 24.00 degrees and
\* 800 ppm
C26_Witness ==
    /\ nb.kind = "decode"
    /\ nb.op.name = "read_co2_and_temp"
    /\ nb.frame = <<255, 133, 9, 96, 3, 32, 0, 0, 239>>
    /\ nb.out = Res("Ok", [temp_raw |-> 2400, temp_div |-> 100, co2_ppm |-> 800])

\* C30: is_response is true exactly when byte 1 is not 01; op_code is byte 1
\* of a response and byte 2 of a request; data is the 6 bytes 2..7 of a
\* response and the 5 bytes 3..7 of a request; bytes 0 and 8 do not enter.
C30_Accessors ==
    (nb.kind = "accessors" /\ nb.out # NoRet) =>
        LET f == nb.frame
            v == nb.out.val
        IN  /\ v.is_response <=> f[2] # 1
            /\ v.op_code = IF f[2] # 1 THEN f[2] ELSE f[3]
            /\ v.data = IF f[2] # 1 THEN <<f[3], f[4], f[5], f[6], f[7], f[8]>>
                        ELSE <<f[4], f[5], f[6], f[7], f[8]>>

\* the accessors were applied to a request frame with a wrong start byte and a
\* wrong checksum
C30_Witness ==
    /\ nb.kind = "accessors"
    /\ nb.frame[1] = 0
    /\ nb.frame[2] = 1
    /\ nb.frame[9] # WireChecksum(nb.frame)
    /\ nb.out = Res("Ok", [is_response |-> FALSE, op_code |-> 255,
                           data |-> <<3, 255, 3, 0, 0>>])

\* C27: a public call has returned not-ready exactly when its last transport
\* invocation answered not-ready, and UartError(e) exactly when its last
\* transport invocation failed with e; every other return follows a transport
\* invocation that succeeded.
C27_DisjointOutcomes ==
    (~call.active /\ call.op \in AllOps /\ ~panicked) =>
        /\ (ret = WouldBlock) <=> (call.last = WouldBlock)
        /\ \A e \in Errs : (ret = Res("UartError", <<e>>)) <=> (call.last = Other(e))
        /\ ret.tag = "UartError" => ret.val[1] \in Errs
        /\ ret.tag \notin {"WouldBlock", "UartError"} => call.last = Ok

\* a call returned UartError(e2) from a read that failed with e2
C27_Witness ==
    /\ ~call.active
    /\ Pos(state).tag = "Read"
    /\ call.last = Other("e2")
    /\ ret = Res("UartError", <<"e2">>)

\* C28: when the transport fails with e in a write, a flush or a read, the
\* poll in which this happens returns at that invocation with the error e
\* itself, for WriteAll, ReadMultiple and every sub-state of
\* WriteAndReadResponse; and a poll returns an error only so.
C28_FatalSurfaces ==
    nb.kind \in {"WriteAll", "ReadMultiple", "WriteAndReadResponse"} =>
        /\ \A e \in Errs : (nb.last = Other(e)) <=> (nb.ret = Other(e))
        /\ nb.ret.tag = "Other" => nb.ret.val[1] \in Errs
        /\ nb.last.tag = "Other" => nb.ret # Continue

\* the flush of a WriteAndReadResponse failed with e1 and the poll returned e1
C28_Witness ==
    /\ nb.kind = "WriteAndReadResponse"
    /\ nb.future.state.tag = "Flush"
    /\ nb.last = Other("e1")
    /\ nb.ret = Other("e1")
    /\ Len(write_buf) = 2

\* the read buffer of a response future after the bytes rx have been stored
Padded(rx) == rx \o [i \in 1..(Len(ZeroBuf) - Len(rx)) |-> 0]

\* into_inner does not panic and returns the transport, and the read buffer
\* that goes with the cancelled future holds the bytes received so far
C29_IntoInner ==
    (~Consumed /\ Consumed') =>
        /\ ~panicked'
        /\ ret' = Res("Transport", Some(U))
        /\ state.kind \notin {"Idle", "SetSelfCalibrate"}
            => into_inner_result(state, uart).buf = Padded(received)

\* C29: into_inner, called between two calls in any reachable state of the
\* driver (Idle, or Busy in any kind and sub-state, also after a fatal
\* error), returns the transport without panicking; and at any moment
\* cancelling the WriteAndReadResponse in flight yields the read buffer with
\* exactly the bytes received so far, in order, the rest still zero.
C29_Reclaim ==
    /\ [][C29_IntoInner]_vars
    /\ [](state.kind \notin {"Idle", "SetSelfCalibrate"}
            => /\ cancel(state.future.state).buf = Padded(received)
               /\ cancel(state.future.state).uart = U)

\* into_inner has been called after a fatal error that left a read with three
\* bytes received
C29_Witness ==
    /\ Consumed
    /\ ~panicked
    /\ ret = Res("Transport", Some(U))
    /\ call.last = Other("e1")
    /\ Len(received) = 3

\* the place of a sub-state in Writing -> Flushing -> Reading -> Completed
Rank(tag) ==
    CASE tag = "Write" -> 1
      [] tag = "Flush" -> 2
      [] tag = "Read" -> 3
      [] tag = "Completed" -> 4

\* the transport invocation that produced the step completes the primitive
\* step of the sub-state st: the last byte written, the flush, the last byte read
CompletesStep(st, last) ==
    /\ last = Ok
    /\ CASE st.tag = "Write" -> st.future.bytes_written = Len(st.future.buf) - 1
         [] st.tag = "Flush" -> TRUE
         [] st.tag = "Read" -> st.future.bytes_read = st.future.read_len - 1
         [] OTHER -> FALSE

\* C31: the sub-state of a WriteAndReadResponse moves only forward and by one
\* place, exactly in the step that completes the write, the flush or the read;
\* a not-ready or fatal result leaves the whole future as it was; polling a
\* Completed future returns ok, leaves it Completed and touches no transport
\* counter.
C31_ForwardOnly ==
    [][ nb.kind = "WriteAndReadResponse" =>
          /\ Rank(nb'.future.state.tag) \in
                {Rank(nb.future.state.tag), Rank(nb.future.state.tag) + 1}
          /\ nb.future.state.tag # "Completed" =>
                /\ (Rank(nb'.future.state.tag) = Rank(nb.future.state.tag) + 1)
                      <=> CompletesStep(nb.future.state, nb'.last)
                /\ nb'.last # Ok => /\ nb'.future = nb.future
                                    /\ nb'.ret = nb'.last
          /\ nb.future.state.tag = "Completed" =>
                /\ nb'.future = nb.future
                /\ nb'.ret = Ok
                /\ nb'.last = nb.last
                /\ <<write_buf, flushed_up_to, rx_count>>'
                      = <<write_buf, flushed_up_to, rx_count>>
      ]_vars

\* a future that was not ready at some point has completed and been polled
\* once more
C31_Witness ==
    /\ nb.kind = "WriteAndReadResponse"
    /\ nb.future.state.tag = "Completed"
    /\ nb.repolled
    /\ nb.stalled
    /\ nb.ret = Ok
    /\ Len(nb.delivered) = 2

ReadKinds == {"ReadCo2", "GetFirmwareVersion", "ReadCo2AndTemperature"}

\* the read-type requests among the whole frames the transport has accepted
\* whose operation is no longer in flight
CompletedReads ==
    ReadTypeAmong((Len(write_buf) \div 9)
                  - (IF Pos(state).tag \in {"Flush", "Read"} THEN 1 ELSE 0))

\* the in-flight read-type operation ends in this step otherwise than by
\* into_inner
ReadOpEnds ==
    /\ state.kind \in ReadKinds
    /\ state' = Idle \/ started' = started + 1
    /\ ~Consumed'

C32_Steps ==
    /\ rx_count' # rx_count =>
          /\ rx_count' = rx_count + 1
          /\ call.active
          /\ state.kind \in ReadKinds
          /\ Pos(state).tag = "Read"
          /\ Pos(state).cursor < 9
    /\ ReadOpEnds =>
          /\ rx_count' - opBase.r = 9
          /\ Len(received) = 8
          /\ rx_line' = <<>>

\* C32: the transport's read is invoked, and a byte consumed, only while a
\* read-type operation is in its Reading sub-state; a read-type operation
\* that ends, its result returned or discarded, has consumed exactly 9 bytes;
\* so as long as the driver exists the bytes consumed are 9 for each
\* completed read-type operation plus those of the read under way.
C32_NoByteSwallowed ==
    /\ [][C32_Steps]_vars
    /\ []((ENABLED ReadOk \/ ENABLED ReadErr(WouldBlock))
            => (call.active /\ state.kind \in ReadKinds /\ Pos(state).tag = "Read"))
    /\ [](~Consumed =>
            rx_count = 9 * CompletedReads
                       + (IF Pos(state).tag = "Read" THEN Pos(state).cursor ELSE 0))

\* three read-type operations have completed, one of them of another kind
\* and discarded by the read_co2_ppm call that then succeeded
C32_Witness ==
    /\ ~call.active
    /\ state = Idle
    /\ rx_count = 27
    /\ call.finished \in ReadKinds
    /\ call.op.name = "read_co2_ppm"
    /\ IsOk(ret)

\* C33: when the transport fails fatally with e while a call for O advances
\* an in-flight operation K other than O, that call returns UartError(e) in
\* the same step, without having completed K or started O: no future is
\* created and no byte is written.
C33_ForeignFatal ==
    [][ (call.active /\ state.kind # OpKind(call.op) /\ call'.last.tag = "Other")
            => /\ ~call'.active
               /\ ret' = Res("UartError", call'.last.val)
               /\ call'.last.val[1] \in Errs
               /\ call'.finished = "none"
               /\ started' = started
               /\ state'.kind = state.kind
               /\ opBase' = opBase
               /\ write_buf' = write_buf
               /\ Pos(state') = Pos(state)
      ]_vars

\* a get_firmware_version call met a fatal flush error of the read-CO2 in
\* flight and returned it
C33_Witness ==
    /\ ~call.active
    /\ call.op.name = "get_firmware_version"
    /\ call.last = Other("e1")
    /\ ret = Res("UartError", <<"e1">>)
    /\ Pos(state) = [kind |-> "ReadCo2", tag |-> "Flush", cursor |-> 0]
    /\ Len(write_buf) = 9

\* C34: when a read-type operation K in flight completes during a call for
\* another operation O, its 9 received bytes are dropped as they are, valid
\* or not: the step reports nothing, puts the transport back and goes on to
\* start O; and a set_self_calibrate call never returns a protocol error.
C34_DiscardedUnvalidated ==
    /\ [][ (call.active /\ state.kind \in ReadKinds /\ call'.finished # call.finished)
              => /\ state.kind # OpKind(call.op)
                 /\ call'.finished = state.kind
                 /\ call'.dropped = Append(received, rx_line[1])
                 /\ Len(call'.dropped) = 9
                 /\ call'.active
                 /\ ret' = NoRet
                 /\ ~panicked'
                 /\ state' = new_state(U, call.op)
                 /\ uart' = None
                 /\ started' = started + 1
          ]_vars
    /\ []((~call.active /\ call.op.name = "set_self_calibrate")
            => ret.tag \in {"Ok", "WouldBlock", "UartError"})

\* a set_self_calibrate call completed the read-CO2 in flight, dropped its
\* response with a wrong checksum, and returned success
C34_Witness ==
    /\ ~call.active
    /\ call.op.name = "set_self_calibrate"
    /\ call.finished = "ReadCo2"
    /\ call.dropped = [READ_CO2_RESPONSE EXCEPT ![9] = 0]
    /\ ret = Ok
    /\ state = Idle

\* C35: a set_self_calibrate(b) call that finds a set-self-calibrate in flight
\* leaves it as it is, whatever flag a its frame encodes; the call goes on
\* writing that frame and returns success in the step that completes it, the
\* transport then having accepted exactly the frame encoding a since the
\* future was created, and no further future having been created.
C35_KindOnly ==
    [][ /\ (~call.active /\ call'.active /\ state.kind = "SetSelfCalibrate"
              /\ call'.op.name = "set_self_calibrate")
            => /\ state' = state
               /\ started' = started
               /\ write_buf' = write_buf
        /\ (call.active /\ call.op.name = "set_self_calibrate"
              /\ state.kind = "SetSelfCalibrate" /\ Completing(state)
              /\ Len(write_buf') = Len(write_buf) + 1)
            => /\ state' = Idle
               /\ ret' = Ok
               /\ ~call'.active
               /\ call'.finished = call.finished
               /\ started' = started
               /\ SubSeq(write_buf', opBase.w + 1, Len(write_buf')) = state.future.buf
               /\ state.future.buf \in
                     {Frame_from(Cmd("SetSelfCalibrate", a)) : a \in BOOLEAN}
      ]_vars

\* set_self_calibrate(false) stalled; set_self_calibrate(true) then returned
\* success with only the frame encoding false on the wire
C35_Witness ==
    /\ ~call.active
    /\ call.op = Op("set_self_calibrate", TRUE)
    /\ ret = Ok
    /\ state = Idle
    /\ started = 1
    /\ write_buf = Frame_from(Cmd("SetSelfCalibrate", FALSE))

\* the return of a transport error, and the entry of the next call of the
\* same operation
C36_Steps ==
    /\ (call.active /\ ~call'.active /\ ret'.tag = "UartError")
        => /\ state' = state
           /\ state.kind # "Idle"
           /\ uart' = None
           /\ started' = started
           /\ opBase' = opBase
           /\ write_buf' = write_buf
           /\ flushed_up_to' = flushed_up_to
           /\ rx_count' = rx_count
    /\ (~call.active /\ ret.tag = "UartError" /\ call'.active
          /\ OpKind(call'.op) = state.kind)
        => /\ state' = state
           /\ started' = started
           /\ opBase' = opBase
           /\ NextIo(state') = NextIo(state)
           /\ write_buf' = write_buf
           /\ rx_count' = rx_count

\* C36: a call that returns a transport error leaves the driver Busy with
\* the very state the failed transport invocation found (operation, sub-state,
\* cursor, buffers) and the transport counters untouched; the next call of
\* the same operation enters without creating a future or changing the
\* state, so that its first transport invocation is the one that failed:
\* the byte at the same cursor, the flush, or the next read.
C36_RetryAfterFatal ==
    /\ [][C36_Steps]_vars
    /\ []((~call.active /\ ret.tag = "UartError")
            => /\ state.kind # "Idle"
               /\ CursorAtTransport(state)
               /\ Pos(state).cursor < 9)

\* a read_co2_ppm call returned a transport error with four bytes of its
\* request written, and the driver is still Busy at that cursor
C36_Witness ==
    /\ ~call.active
    /\ call.op.name = "read_co2_ppm"
    /\ ret = Res("UartError", <<"e1">>)
    /\ Pos(state) = [kind |-> "ReadCo2", tag |-> "Write", cursor |-> 4]
    /\ write_buf = SubSeq(READ_CO2, 1, 4)

\* C37: nothing panics; whenever the driver holds a future, in a call or
\* between calls, after not-ready as after a fatal error, that future is not
\* complete: a WriteAll (of a response future or of set-self-calibrate) has
\* its cursor below the 9 bytes of its buffer, a ReadMultiple has read fewer
\* than 9 bytes into its 9-byte buffer, and no response future is Completed;
\* so every poll indexes inside its buffer.
C37_IndexInRange ==
    /\ ~panicked
    /\ state.kind # "Idle" =>
         /\ NextIo(state) \in {"write", "flush", "read"}
         /\ Pos(state).cursor < 9
         /\ NextIo(state) = "write" =>
               /\ Len(PolledWriteAll(state).buf) = 9
               /\ PolledWriteAll(state).bytes_written < 9
               /\ WriteAll_index_ok(PolledWriteAll(state))
         /\ NextIo(state) = "read" =>
               /\ Len(PolledReadMultiple(state).buf) = 9
               /\ PolledReadMultiple(state).read_len = 9
               /\ PolledReadMultiple(state).bytes_read < 9
               /\ ReadMultiple_index_ok(PolledReadMultiple(state))

\* a set_self_calibrate call returned a fatal error met at the last byte of
\* its frame; the future stays in the driver with its cursor at 8
C37_Witness ==
    /\ ~call.active
    /\ call.op.name = "set_self_calibrate"
    /\ ret = Res("UartError", <<"e2">>)
    /\ state.kind = "SetSelfCalibrate"
    /\ state.future.bytes_written = 8
    /\ Len(write_buf) - opBase.w = 8

\* what happens while a set-self-calibrate is in flight, and in the step in
\* which the transport accepts the 9th byte of its frame
C38_Steps ==
    /\ state.kind = "SetSelfCalibrate"
        => /\ flushed_up_to' = flushed_up_to
           /\ rx_count' = rx_count
           /\ rx_line' = rx_line
           /\ received' = <<>>
           /\ Len(write_buf') \in {Len(write_buf), Len(write_buf) + 1}
    /\ (state.kind = "SetSelfCalibrate" /\ Completing(state)
          /\ Len(write_buf') = Len(write_buf) + 1)
        => /\ SubSeq(write_buf', opBase.w + 1, Len(write_buf')) = state.future.buf
           /\ Len(write_buf') - opBase.w = 9
           /\ rx_count' = opBase.r
           /\ IF call.op.name = "set_self_calibrate"
              THEN state' = Idle /\ uart' = Some(U) /\ ret' = Ok /\ ~call'.active
              ELSE call'.finished = "SetSelfCalibrate" /\ started' = started + 1
    /\ (state.kind = "SetSelfCalibrate" /\ state'.kind # "SetSelfCalibrate"
          /\ ~Consumed')
        => (Completing(state) /\ Len(write_buf') = Len(write_buf) + 1)

\* C38: while a set-self-calibrate is in flight the only transport invocation
\* the driver can make is a write: nothing is flushed and nothing is taken
\* from the receive side; the operation ends exactly in the step in which
\* the transport accepts the 9th byte of its frame, the set_self_calibrate
\* call returning success in that step.
C38_WriteOnly ==
    /\ [][C38_Steps]_vars
    /\ [](state.kind = "SetSelfCalibrate"
            => /\ NextIo(state) = "write"
               /\ ~ENABLED Flush(Ok)
               /\ ~ENABLED ReadOk
               /\ ~ENABLED ReadErr(WouldBlock)
               /\ rx_count = opBase.r
               /\ flushed_up_to <= opBase.w)

\* after a read-CO2, set_self_calibrate(false) returned success; nothing but
\* the read-CO2 has been flushed and nothing but its 9 bytes has been read
C38_Witness ==
    /\ ~call.active
    /\ call.op = Op("set_self_calibrate", FALSE)
    /\ call.last = Ok
    /\ ret = Ok
    /\ state = Idle
    /\ started = 2
    /\ Len(write_buf) = 18
    /\ flushed_up_to = 9
    /\ rx_count = 9

\* what the protocol says the blocking read_co2_ppm makes of 9 received bytes
BlockingExpected(f) ==
    IF f[1] # 255 THEN Res("StartByteExpected", <<f[1]>>)
    ELSE IF f[9] # WireChecksum(f) THEN Res("InvalidChecksum", NoVal)
    ELSE IF f[2] # 134 THEN Res("OpCodeMismatch", <<134, f[2]>>)
    ELSE Res("Ok", <<f[3] * 256 + f[4]>>)

\* C39: the blocking read_co2_ppm first hands FF 01 86 00 00 00 00 00 79 to
\* write_blocking and only after its success calls read_blocking, once; a
\* failed write returns UartError with no read attempted, a failed read
\* returns UartError; 9 received bytes give StartByteExpected{got} if byte 0
\* is not FF, else InvalidChecksum if byte 8 is not the checksum of bytes
\* 1..7, else OpCodeMismatch if byte 1 is not 86, else the big-endian value
\* of bytes 2..3.
C39_BlockingReadCo2 ==
    nb.kind = "blocking" =>
        /\ nb.calls \in {<<>>, <<"write">>, <<"write", "read">>}
        /\ nb.calls # <<>> => nb.written = <<255, 1, 134, 0, 0, 0, 0, 0, 121>>
        /\ nb.calls = <<"write", "read">> => IsOk(nb.write_res)
        /\ nb.out # NoRet <=> nb.pc = "done"
        /\ nb.pc = "done" =>
              IF ~IsOk(nb.write_res)
              THEN /\ nb.out = Res("UartError", nb.write_res.val)
                   /\ nb.calls = <<"write">>
              ELSE /\ nb.calls = <<"write", "read">>
                   /\ nb.out = IF ~IsOk(nb.read_res)
                               THEN Res("UartError", nb.read_res.val)
                               ELSE BlockingExpected(nb.read_res.val)

\* a response with a right start byte, a wrong checksum and a foreign opcode
\* has been reported as InvalidChecksum
C39_Witness ==
    /\ nb.kind = "blocking"
    /\ nb.pc = "done"
    /\ nb.calls = <<"write", "read">>
    /\ nb.buf[1] = 255
    /\ nb.buf[2] # 134
    /\ nb.buf[9] # WireChecksum(nb.buf)
    /\ nb.out = Res("InvalidChecksum", NoVal)

====
